---- MODULE Spec2Model ----
(* A model of the tool-call orchestration loop of ai_agent_typescript:      *)
(* ToolRegistry (tools.ts) and Agent (agent.ts).                            *)
(*                                                                          *)
(* Strings are sequences of atoms, template literals are concatenations.   *)
(* The agent's asynchronous call chain (processMessage, chat,               *)
(* executeTodoSequence) is a stack of frames; one action runs the code from *)
(* one await to the next.                                                   *)
EXTENDS Integers, Sequences, FiniteSets, TLC

VARIABLES
    tools,                \* ToolRegistry.tools: the Map, as its entries in insertion order
    registered,           \* the tools ToolRegistry.register was called with, in call order
    lastExecute,          \* the last direct ToolRegistry.execute call and what came of it
    caller,               \* what the agent's caller holds: index.ts's main loop, a returned array
    conversationHistory,  \* Agent.conversationHistory
    todos,                \* Agent.todos: a reference to the array that holds the task list
    stack,                \* the pending async calls of the agent, innermost last
    outcome,              \* how the last call of the agent's public API ended
    lastSequence,         \* what the last finished Agent.executeTodoSequence went through
    calls,                \* completion-endpoint calls made so far
    requests              \* action requests received so far

vars == <<tools, registered, lastExecute, caller, conversationHistory, todos, stack, outcome, lastSequence,
          calls, requests>>

(* ------------------------------------------------------------------ *)
(* Bounds and input sets                                               *)
(* ------------------------------------------------------------------ *)

\* completion-endpoint calls in one run of the model
MaxCalls == 4

\* calls of ToolRegistry.register in one run of the model
MaxRegister == 3

\* completion-endpoint calls in one run of the model of the task-list writes
MaxWrites == 3

Undefined == [undefined |-> TRUE]

Front(s) == SubSeq(s, 1, Len(s) - 1)

Last(s) == s[Len(s)]

\* the callback of find and filter applied to an array of records: which elements
\* have the value in the field
Has(s, field, value) == [k \in 1..Len(s) |-> s[k][field] = value]

\* the positions from k on that a callback's results (test) accept, in order
RECURSIVE Positions(_, _)
Positions(test, k) ==
    IF k > Len(test) THEN <<>>
    ELSE IF test[k] THEN <<k>> \o Positions(test, k + 1)
    ELSE Positions(test, k + 1)

\* Array.prototype.find: the first element the callback accepts, or undefined
Find(s, test) ==
    LET ps == Positions(test, 1)
    IN  IF ps = <<>> THEN Undefined ELSE s[ps[1]]

\* Array.prototype.filter(...).length
Count(test) == Len(Positions(test, 1))

(* ------------------------------------------------------------------ *)
(* Values                                                              *)
(* ------------------------------------------------------------------ *)

\* new Error(message)
Error(message) == [error |-> TRUE, message |-> message]

\* values a tool may throw or reject with that are not Error objects
NonErrors == {[thrown |-> "string", text |-> <<"boom">>], [thrown |-> "number", digits |-> "42"]}

\* String(value) for the values of NonErrors
String(v) == IF v.thrown = "string" THEN v.text ELSE <<v.digits>>

\* error instanceof Error ? error.message : String(error)
MessageOf(e) == IF "error" \in DOMAIN e THEN e.message ELSE String(e)

\* what the execute function of a tool does when it is invoked
Resolve(value) == [kind |-> "resolve", value |-> value]

Reject(error) == [kind |-> "reject", error |-> error]

\* what a call ends with
Return(value) == [kind |-> "return", value |-> value]

Throw(error) == [kind |-> "throw", error |-> error]

(* ------------------------------------------------------------------ *)
(* ToolRegistry                                                        *)
(* ------------------------------------------------------------------ *)

Tool(name, description) ==
    [name |-> name, description |-> description,
     input_schema |-> [type |-> "object", required |-> <<name>>],
     execute |-> <<name, description>>]

\* register pushing onto an array instead of setting a key of a Map
registerAppend(m, tool) == Append(m, tool)

\* register that leaves a name alone once it is taken
registerFirstWins(m, tool) ==
    IF Positions(Has(m, "name", tool.name), 1) = <<>> THEN Append(m, tool) ELSE m

\* register with delete before set: a name registered again moves to the end
registerMoveToEnd(m, tool) ==
    Append(SelectSeq(m, LAMBDA t : t.name # tool.name), tool)

\* Map.prototype.set on the entries in insertion order: an existing key keeps its place
register(m, tool) ==
    LET ps == Positions(Has(m, "name", tool.name), 1)
    IN  IF ps = <<>> THEN Append(m, tool) ELSE [m EXCEPT ![ps[1]] = tool]

getAll(m) == m

get(m, name) == Find(m, Has(m, "name", name))

\* execute with the lookup failure contained like a tool failure
executeContained(m, toolCall, ran) ==
    LET tool == get(m, toolCall.name)
    IN  IF tool = Undefined
        THEN [kind |-> "return",
              value |-> <<"Error executing tool '", toolCall.name, "': ",
                          "Tool '", toolCall.name, "' not found">>,
              invoked |-> <<>>]
        ELSE IF ran.kind = "resolve"
        THEN [kind |-> "return", value |-> ran.value, invoked |-> <<tool.execute>>]
        ELSE [kind |-> "return",
              value |-> <<"Error executing tool '", toolCall.name, "': ">> \o MessageOf(ran.error),
              invoked |-> <<tool.execute>>]

\* execute without its try and catch
executeUncaught(m, toolCall, ran) ==
    LET tool == get(m, toolCall.name)
    IN  IF tool = Undefined
        THEN [kind |-> "throw", error |-> Error(<<"Tool '", toolCall.name, "' not found">>),
              invoked |-> <<>>]
        ELSE IF ran.kind = "resolve"
        THEN [kind |-> "return", value |-> ran.value, invoked |-> <<tool.execute>>]
        ELSE [kind |-> "throw", error |-> ran.error, invoked |-> <<tool.execute>>]

\* ToolRegistry.execute; ran is what tool.execute(toolCall.input) does if it is invoked
execute(m, toolCall, ran) ==
    LET tool == get(m, toolCall.name)
    IN  IF tool = Undefined
        THEN [kind |-> "throw", error |-> Error(<<"Tool '", toolCall.name, "' not found">>),
              invoked |-> <<>>]
        ELSE IF ran.kind = "resolve"
        THEN [kind |-> "return", value |-> ran.value, invoked |-> <<tool.execute>>]
        ELSE [kind |-> "return",
              value |-> <<"Error executing tool '", toolCall.name, "': ">> \o MessageOf(ran.error),
              invoked |-> <<tool.execute>>]

\* getToolDefinitions handing out the tools themselves
getToolDefinitionsWhole(m) == getAll(m)

getToolDefinitions(m) ==
    [k \in 1..Len(getAll(m)) |->
        [name |-> getAll(m)[k].name,
         description |-> getAll(m)[k].description,
         input_schema |-> getAll(m)[k].input_schema]]

(* ------------------------------------------------------------------ *)
(* Task list                                                           *)
(* ------------------------------------------------------------------ *)

Statuses == {"pending", "in_progress", "completed"}

Todo(id, status) ==
    [id |-> id, content |-> <<"task ", id>>, status |-> status, priority |-> "medium"]

RECURSIVE stringifyItems(_)
stringifyItems(list) ==
    IF list = <<>> THEN <<>>
    ELSE <<"{content:">> \o list[1].content
            \o <<",status:", list[1].status, ",priority:", list[1].priority,
                 ",id:", list[1].id, "}">>
            \o stringifyItems(Tail(list))

\* JSON.stringify of a task list
stringify(list) == <<"[">> \o stringifyItems(list) \o <<"]">>

\* Agent.todos is a reference: to an array of its own, or to the todos array of the
\* input of a tool_use block of an assistant turn of the history
Own(list) == [at |-> "own", list |-> list]

InBlock(turn, block) == [at |-> "block", turn |-> turn, block |-> block]

\* the array Agent.todos refers to
Deref(h, td) ==
    IF td.at = "own" THEN td.list ELSE h[td.turn].content.blocks[td.block].input.todos

\* the status the Map built from oldTodos holds for id (the last entry of an id wins)
oldStatusMap(oldTodos, id) ==
    LET ps == Positions(Has(oldTodos, "id", id), 1)
    IN  IF ps = <<>> THEN "undefined" ELSE oldTodos[Last(ps)].status

\* hasSignificantTodoChanges taking every difference of a status for significant
hasAnyTodoChanges(oldTodos, newTodos) ==
    \E k \in 1..Len(newTodos) : oldStatusMap(oldTodos, newTodos[k].id) # newTodos[k].status

hasSignificantTodoChanges(oldTodos, newTodos) ==
    \E k \in 1..Len(newTodos) :
        LET oldStatus == oldStatusMap(oldTodos, newTodos[k].id)
        IN  /\ oldStatus # newTodos[k].status
            /\ \/ newTodos[k].status \in {"completed", "in_progress"}
               \/ oldStatus \in {"completed", "in_progress"}

\* getNextPendingTodo taking the last pending item
getLastPendingTodo(list) ==
    LET ps == Positions(Has(list, "status", "pending"), 1)
    IN  IF ps = <<>> THEN Undefined ELSE list[Last(ps)]

getNextPendingTodo(list) == Find(list, Has(list, "status", "pending"))

\* getCurrentInProgressTodo that finds no item
getCurrentInProgressNever(list) == Undefined

getCurrentInProgressTodo(list) == Find(list, Has(list, "status", "in_progress"))

(* ------------------------------------------------------------------ *)
(* Agent: the state the methods work on                                *)
(* ------------------------------------------------------------------ *)

\* the fields of the agent and its pending calls, as one value
Cur ==
    [h |-> conversationHistory, td |-> todos, st |-> stack, out |-> outcome,
     seq |-> lastSequence]

Top(s) == Last(s.st)

SetTop(s, f) == [s EXCEPT !.st = Append(Front(s.st), f)]

Pop(s) == [s EXCEPT !.st = Front(s.st)]

Push(s, f) == [s EXCEPT !.st = Append(s.st, f)]

\* a turn's content: a string, or an array of content blocks
Text(str) == [text |-> str]

Blocks(bs) == [blocks |-> bs]

addMessage(s, role, content) ==
    [s EXCEPT !.h = Append(s.h, [role |-> role, content |-> content])]

IsToolUse(block) == block.type = "tool_use"

\* parseToolCalls handing out the requests last first
parseToolCallsReversed(content) ==
    LET ps == Positions(Has(content, "type", "tool_use"), 1)
    IN  [k \in 1..Len(ps) |->
            [name |-> content[ps[Len(ps) + 1 - k]].name,
             input |-> content[ps[Len(ps) + 1 - k]].input,
             inputOf |-> ps[Len(ps) + 1 - k]]]

\* Agent.parseToolCalls; input is the input object of the block itself, which
\* inputOf identifies by the block's position
parseToolCalls(content) ==
    LET ps == Positions(Has(content, "type", "tool_use"), 1)
    IN  [k \in 1..Len(ps) |->
            [name |-> content[ps[k]].name, input |-> content[ps[k]].input, inputOf |-> ps[k]]]

\* content.find(block => block.type === 'tool_use' && block.name === toolCall.name)?.id
toolUseBlockId(content, toolCall) ==
    LET toolUseBlock ==
            Find(content, [k \in 1..Len(content) |->
                              content[k].type = "tool_use" /\ content[k].name = toolCall.name])
    IN  IF toolUseBlock = Undefined THEN "undefined" ELSE toolUseBlock.id

\* a result block that carries the error flag whatever its content
ToolResultFlagged(id, content) ==
    [type |-> "tool_result", tool_use_id |-> id, content |-> content, is_error |-> TRUE]

ToolResult(id, content) == [type |-> "tool_result", tool_use_id |-> id, content |-> content]

\* ErrorResult without the error flag
ErrorResultUnflagged(id, error) ==
    [type |-> "tool_result", tool_use_id |-> id, content |-> <<"Error: ">> \o MessageOf(error)]

ErrorResult(id, error) ==
    [type |-> "tool_result", tool_use_id |-> id,
     content |-> <<"Error: ">> \o MessageOf(error), is_error |-> TRUE]

Null == <<>>

DirectiveFor(todo) ==
    <<"Please work on this specific todo item: \"">> \o todo.content
        \o <<"\". Focus only on completing this task. When done, mark it as completed and move to the next pending item.">>

\* autoProgressToNextTodo starting every pending item
autoProgressAll(s) ==
    LET list == Deref(s.h, s.td)
        inProgress == getCurrentInProgressTodo(list)
        nextPending == getNextPendingTodo(list)
        updatedTodos ==
            [k \in 1..Len(list) |->
                IF list[k].status = "pending"
                THEN [list[k] EXCEPT !.status = "in_progress"]
                ELSE list[k]]
    IN  IF inProgress = Undefined /\ nextPending # Undefined
        THEN [s |-> [s EXCEPT !.td = Own(updatedTodos)], prompt |-> DirectiveFor(nextPending)]
        ELSE [s |-> s, prompt |-> Null]

\* autoProgressToNextTodo setting the status on the item itself instead of on a copy
autoProgressInPlace(s) ==
    LET list == Deref(s.h, s.td)
        inProgress == getCurrentInProgressTodo(list)
        nextPending == getNextPendingTodo(list)
        updatedTodos ==
            [k \in 1..Len(list) |->
                IF list[k].id = nextPending.id
                THEN [list[k] EXCEPT !.status = "in_progress"]
                ELSE list[k]]
    IN  IF inProgress = Undefined /\ nextPending # Undefined
        THEN [s |-> IF s.td.at = "own" THEN [s EXCEPT !.td = Own(updatedTodos)]
                    ELSE [s EXCEPT !.h[s.td.turn].content.blocks[s.td.block].input.todos =
                                        updatedTodos],
              prompt |-> DirectiveFor(nextPending)]
        ELSE [s |-> s, prompt |-> Null]

\* Agent.autoProgressToNextTodo: the agent afterwards and the prompt returned
autoProgressToNextTodo(s) ==
    LET list == Deref(s.h, s.td)
        inProgress == getCurrentInProgressTodo(list)
        nextPending == getNextPendingTodo(list)
        updatedTodos ==
            [k \in 1..Len(list) |->
                IF list[k].id = nextPending.id
                THEN [list[k] EXCEPT !.status = "in_progress"]
                ELSE list[k]]
    IN  IF inProgress = Undefined /\ nextPending # Undefined
        THEN [s |-> [s EXCEPT !.td = Own(updatedTodos)], prompt |-> DirectiveFor(nextPending)]
        ELSE [s |-> s, prompt |-> Null]

IdsOf(list) == [k \in 1..Len(list) |-> list[k].id]

NumberOf(list, status) == Cardinality({k \in 1..Len(list) : list[k].status = status})

StatusOf(list, id) ==
    LET ps == Positions(Has(list, "id", id), 1)
    IN  IF ps = <<>> THEN "undefined" ELSE list[ps[1]].status

\* a chat cycle of executeTodoSequence did its item: the list it returned with holds
\* the items of the list it began with (before), the completed ones still completed,
\* the selected item completed and none in_progress
Smooth(before, selected, now) ==
    /\ IdsOf(now) = IdsOf(before)
    /\ \A k \in 1..Len(before) : before[k].status = "completed" => now[k].status = "completed"
    /\ StatusOf(now, selected) = "completed"
    /\ NumberOf(now, "in_progress") = 0

\* a call of Agent.chat: its locals, and the messages of its last completion call
ChatFrame ==
    [fn |-> "chat", pc |-> "call", messages |-> <<>>, turn |-> 0, content |-> <<>>,
     toolCalls |-> <<>>, i |-> 0, toolResults |-> <<>>]

\* create sending the last turn only
createLastTurn(s) == SetTop(s, [Top(s) EXCEPT !.messages = <<Last(s.h)>>])

\* the completion call of Agent.chat: the history goes out as the messages
create(s) == SetTop(s, [Top(s) EXCEPT !.messages = s.h])

\* a call of executeTodoSequence: its locals, and for the record the task list it
\* started on, the list its last chat cycle began with, the chat cycles it ran and
\* whether each of them did its item
SeqFrame(s) ==
    [fn |-> "seq", pc |-> "loop", currentTodo |-> "", result |-> <<>>,
     start |-> Deref(s.h, s.td), before |-> <<>>, cycles |-> 0, smooth |-> TRUE]

\* Agent.chat up to its first await: the input is appended and the endpoint is called
chat(s, userInput) == create(Push(addMessage(s, "user", Text(userInput)), ChatFrame))

\* the end of one pass of the for loop of Agent.chat: the next tool call, or after
\* the last one the results become one user turn and the endpoint is called again
AdvanceFor(s) ==
    LET f == Top(s)
    IN  IF f.i < Len(f.toolCalls)
        THEN SetTop(s, [f EXCEPT !.pc = "dispatch", !.i = f.i + 1])
        ELSE create(SetTop(addMessage(s, "user", Blocks(f.toolResults)), ChatFrame))

\* PushResult with unshift in place of push
PushResultFirst(s, block) == SetTop(s, [Top(s) EXCEPT !.toolResults = <<block>> \o @])

PushResult(s, block) == SetTop(s, [Top(s) EXCEPT !.toolResults = Append(@, block)])

\* Report with the items still open as the total
ReportOfOpen(list) ==
    <<"Todo sequence completed! ",
      ToString(Count(Has(list, "status", "completed"))), "/",
      ToString(Len(list) - Count(Has(list, "status", "completed"))), " todos finished.">>

Report(list) ==
    <<"Todo sequence completed! ",
      ToString(Count(Has(list, "status", "completed"))), "/",
      ToString(Len(list)), " todos finished.">>

RECURSIVE Resume(_, _)

\* executeTodoSequence after its while loop, which the safety check left (stuck) or
\* the loop condition: the report is returned to the caller
SeqFinish(s, stuck) ==
    Resume(Pop([s EXCEPT !.seq = [kind |-> "sequence", start |-> Top(s).start,
                                  cycles |-> Top(s).cycles, smooth |-> Top(s).smooth,
                                  stuck |-> stuck]]),
           Return(Report(Deref(s.h, s.td))))

\* the safety check at the end of a pass of the while loop of executeTodoSequence
SeqSafetyCheck(s) ==
    LET f == Top(s)
        stillInProgress == getCurrentInProgressTodo(Deref(s.h, s.td))
    IN  IF stillInProgress # Undefined /\ stillInProgress.id = f.currentTodo
        THEN SeqFinish(s, TRUE)
        ELSE SetTop(s, [f EXCEPT !.pc = "loop"])

\* Resume with executeTodoSequence catching what its chat cycle throws
ResumeCaught(s, ret) ==
    IF s.st = <<>> THEN [s EXCEPT !.out = ret]
    ELSE LET f == Top(s)
         IN  IF f.fn = "seq"
             THEN SeqSafetyCheck(
                      SetTop(s, [f EXCEPT !.result =
                                    @ \o (IF ret.kind = "throw" THEN MessageOf(ret.error)
                                          ELSE ret.value) \o <<"\n\n">>]))
             ELSE LET id == toolUseBlockId(f.content, f.toolCalls[f.i])
                  IN  AdvanceFor(PushResult(s,
                          IF ret.kind = "throw"
                          THEN ErrorResult(id, ret.error)
                          ELSE ToolResult(id, ret.value)))

\* the caller of a call that ended with ret goes on, up to its next await
Resume(s, ret) ==
    IF s.st = <<>> THEN [s EXCEPT !.out = ret]
    ELSE LET f == Top(s)
         IN  IF f.fn = "seq"
             THEN IF ret.kind = "throw"
                  THEN Resume(Pop(s), ret)
                  ELSE SeqSafetyCheck(
                           SetTop(s, [f EXCEPT !.result = @ \o ret.value \o <<"\n\n">>,
                                               !.smooth = @ /\ Smooth(f.before, f.currentTodo,
                                                                       Deref(s.h, s.td))]))
             ELSE LET id == toolUseBlockId(f.content, f.toolCalls[f.i])
                  IN  AdvanceFor(PushResult(s,
                          IF ret.kind = "throw"
                          THEN ErrorResult(id, ret.error)
                          ELSE ToolResult(id, ret.value)))

\* one pass of the while loop of Agent.executeTodoSequence, up to its await
SeqLoop(s) ==
    LET f == Top(s)
        currentTodo == getNextPendingTodo(Deref(s.h, s.td))
        ap == autoProgressToNextTodo(s)
    IN  IF currentTodo = Undefined THEN SeqFinish(s, FALSE)
        ELSE IF ap.prompt # Null
        THEN chat(SetTop(ap.s, [f EXCEPT !.pc = "await", !.currentTodo = currentTodo.id,
                                         !.before = Deref(s.h, s.td),
                                         !.cycles = f.cycles + 1]),
                  ap.prompt)
        ELSE SeqSafetyCheck(SetTop(ap.s, [f EXCEPT !.currentTodo = currentTodo.id]))

\* executeTodoSequence entering its loop whether or not an item is pending
executeTodoSequenceAlways(s) == Push(s, SeqFrame(s))

\* Agent.executeTodoSequence up to its while loop
executeTodoSequence(s) ==
    IF getNextPendingTodo(Deref(s.h, s.td)) = Undefined
    THEN Resume(s, Return(<<"No pending todos to execute.">>))
    ELSE Push(s, SeqFrame(s))

(* ------------------------------------------------------------------ *)
(* Tools                                                               *)
(* ------------------------------------------------------------------ *)

StatusIcon(status) ==
    CASE status = "completed" -> "[done]"
      [] status = "in_progress" -> "[doing]"
      [] OTHER -> "[todo]"

RECURSIVE renderTodos(_)
renderTodos(list) ==
    IF list = <<>> THEN <<>>
    ELSE <<StatusIcon(list[1].status), list[1].priority>> \o list[1].content \o <<"\n">>
            \o renderTodos(Tail(list))

\* todoWriteExecute without the case of the empty list
todoWriteExecuteNoNotice(input) ==
    <<"Todos updated successfully!\n\nProgress: ",
      ToString(Count(Has(input.todos, "status", "completed"))), " completed, ",
      ToString(Count(Has(input.todos, "status", "in_progress"))), " in progress, ",
      ToString(Count(Has(input.todos, "status", "pending"))), " pending\n\n">>
      \o <<"Current todos:\n">> \o renderTodos(input.todos)

\* the execute function of the todo_write tool
todoWriteExecute(input) ==
    <<"Todos updated successfully!\n\nProgress: ",
      ToString(Count(Has(input.todos, "status", "completed"))), " completed, ",
      ToString(Count(Has(input.todos, "status", "in_progress"))), " in progress, ",
      ToString(Count(Has(input.todos, "status", "pending"))), " pending\n\n">>
      \o (IF input.todos = <<>> THEN <<"No todos in the list.">>
          ELSE <<"Current todos:\n">> \o renderTodos(input.todos))

\* what the execute function of the tool a call names may do, the world being what it is
ToolRuns(toolCall) ==
    CASE toolCall.name = "todo_write" -> {Resolve(todoWriteExecute(toolCall.input))}
      [] toolCall.name = "read_file" ->
            {Resolve(<<"File contents of ", toolCall.input.file_path, ":\n\n", "data">>),
             Reject(Error(<<"Failed to read file: ", "ENOENT">>))}
      [] toolCall.name = "execute_command" ->
            {Resolve(<<"Output:\n", "out">>),
             Resolve(<<"Command executed successfully with no output">>),
             Reject(Error(<<"Command execution failed: ", "Command failed: ",
                            toolCall.input.command>>))}
      [] toolCall.name = "http_request" ->
            {Resolve(<<"HTTP ", "GET", " ", toolCall.input.url, "\nStatus: ", "200 OK">>),
             Reject(Error(<<"HTTP request failed: ",
                            "The operation was aborted due to timeout">>))}
      [] OTHER -> {Resolve(<<"done">>)}

\* the tool as tools.ts declares it
readFileTool == Tool("read_file", "Read the contents of a file from the filesystem")

defaultToolRegistry ==
    register(register(register(register(<<>>, readFileTool),
        Tool("execute_command", "Execute a shell command and return the output")),
        Tool("http_request", "Make an HTTP request to a URL and return the response")),
        Tool("search", "Search the web using Brave Search API"))

todoWriteTool == Tool("todo_write", "Create and manage a structured task list")

\* the registry an agent is built with: the default one as tools.ts fills it, or the
\* default one with the todo_write tool registered as well
AgentRegistries == {defaultToolRegistry, register(defaultToolRegistry, todoWriteTool)}

(* ------------------------------------------------------------------ *)
(* Agent.chat: the dispatch of one tool call                           *)
(* ------------------------------------------------------------------ *)

\* replaceTodos pushing the supplied items onto the list the agent holds
replaceTodosMerging(s, turn, block) ==
    [s EXCEPT !.td = Own(Deref(s.h, s.td) \o s.h[turn].content.blocks[block].input.todos)]

\* this.todos = toolCall.input.todos: the agent refers to the array of the request
replaceTodos(s, turn, block) == [s EXCEPT !.td = InBlock(turn, block)]

\* confirm read as a truthy value, so that an absent confirm cancels
confirmTruthy(input) == "confirm" \in DOMAIN input /\ input.confirm = TRUE

\* the confirm of an execute_sequence request: toolCall.input.confirm !== false
confirm(input) == ~("confirm" \in DOMAIN input /\ input.confirm = FALSE)

\* dispatch pushing the result of a write after auto-progression, with the list
\* rendered as it is then
dispatchRenderAfter(s, ran) ==
    LET f == Top(s)
        toolCall == f.toolCalls[f.i]
        id == toolUseBlockId(f.content, toolCall)
        result == execute(tools, toolCall, ran)
    IN  IF toolCall.name = "todo_write"
        THEN LET oldTodos == Deref(s.h, s.td)
                 s1 == replaceTodos(s, f.turn, toolCall.inputOf)
                 hasStatusChanges == hasSignificantTodoChanges(oldTodos, Deref(s1.h, s1.td))
                 enhancedResult ==
                     result.value \o <<"\n\nInternal todo state updated: ">>
                         \o stringify(Deref(s1.h, s1.td))
                 s2 == PushResult(s1, ToolResult(id, enhancedResult))
                 ap == autoProgressToNextTodo(s2)
             IN  IF result.kind = "throw"
                 THEN AdvanceFor(PushResult(s1, ErrorResult(id, result.error)))
                 ELSE IF hasStatusChanges /\ ap.prompt # Null
                 THEN AdvanceFor(addMessage(
                          PushResult([s1 EXCEPT !.td = ap.s.td],
                                     ToolResult(id, result.value
                                         \o <<"\n\nInternal todo state updated: ">>
                                         \o stringify(Deref(ap.s.h, ap.s.td)))),
                          "user", Text(ap.prompt)))
                 ELSE AdvanceFor(s2)
        ELSE IF toolCall.name = "execute_sequence"
        THEN IF confirm(toolCall.input)
             THEN executeTodoSequence(SetTop(s, [f EXCEPT !.pc = "await"]))
             ELSE AdvanceFor(PushResult(s,
                      ToolResult(id, <<"Todo sequence execution cancelled.">>)))
        ELSE IF result.kind = "throw"
        THEN AdvanceFor(PushResult(s, ErrorResult(id, result.error)))
        ELSE AdvanceFor(PushResult(s, ToolResult(id, result.value)))

\* one pass of the for loop of Agent.chat, up to its await or to its end
dispatch(s, ran) ==
    LET f == Top(s)
        toolCall == f.toolCalls[f.i]
        id == toolUseBlockId(f.content, toolCall)
        result == execute(tools, toolCall, ran)
    IN  IF toolCall.name = "todo_write"
        THEN LET oldTodos == Deref(s.h, s.td)
                 s1 == replaceTodos(s, f.turn, toolCall.inputOf)
                 hasStatusChanges == hasSignificantTodoChanges(oldTodos, Deref(s1.h, s1.td))
                 enhancedResult ==
                     result.value \o <<"\n\nInternal todo state updated: ">>
                         \o stringify(Deref(s1.h, s1.td))
                 s2 == PushResult(s1, ToolResult(id, enhancedResult))
                 ap == autoProgressToNextTodo(s2)
             IN  IF result.kind = "throw"
                 THEN AdvanceFor(PushResult(s1, ErrorResult(id, result.error)))
                 ELSE IF hasStatusChanges /\ ap.prompt # Null
                 THEN AdvanceFor(addMessage(ap.s, "user", Text(ap.prompt)))
                 ELSE AdvanceFor(s2)
        ELSE IF toolCall.name = "execute_sequence"
        THEN IF confirm(toolCall.input)
             THEN executeTodoSequence(SetTop(s, [f EXCEPT !.pc = "await"]))
             ELSE AdvanceFor(PushResult(s,
                      ToolResult(id, <<"Todo sequence execution cancelled.">>)))
        ELSE IF result.kind = "throw"
        THEN AdvanceFor(PushResult(s, ErrorResult(id, result.error)))
        ELSE AdvanceFor(PushResult(s, ToolResult(id, result.value)))

\* respond whose find never meets a text block
respondNoText(s, content) ==
    LET s1 == addMessage(s, "assistant", Blocks(content))
        toolCalls == parseToolCalls(content)
    IN  IF Len(toolCalls) = 0
        THEN Resume(Pop(s1), Return(<<"No text response">>))
        ELSE SetTop(s1, [Top(s1) EXCEPT !.pc = "dispatch", !.turn = Len(s1.h),
                                        !.content = content, !.toolCalls = toolCalls,
                                        !.i = 1, !.toolResults = <<>>])

\* Agent.chat from the answer of the endpoint to the next await
respond(s, content) ==
    LET s1 == addMessage(s, "assistant", Blocks(content))
        toolCalls == parseToolCalls(content)
        textContent == Find(content, Has(content, "type", "text"))
    IN  IF Len(toolCalls) = 0
        THEN Resume(Pop(s1),
                    Return(IF textContent # Undefined THEN textContent.text
                           ELSE <<"No text response">>))
        ELSE SetTop(s1, [Top(s1) EXCEPT !.pc = "dispatch", !.turn = Len(s1.h),
                                        !.content = content, !.toolCalls = toolCalls,
                                        !.i = 1, !.toolResults = <<>>])

\* the atoms String.prototype.trim removes at either end of a string
WhiteSpace == {" ", "\t"}

\* the lower-case form of one atom
LowerCaseOf(atom) ==
    CASE atom = "/Execute-Todos" -> "/execute-todos"
      [] atom = "/EXECUTE-TODOS" -> "/execute-todos"
      [] atom = "Hello" -> "hello"
      [] atom = "Exit" -> "exit"
      [] atom = "EXIT" -> "exit"
      [] OTHER -> atom

\* String.prototype.toLowerCase
toLowerCase(str) == [k \in 1..Len(str) |-> LowerCaseOf(str[k])]

\* String.prototype.trim
trim(str) ==
    LET kept == {k \in 1..Len(str) : str[k] \notin WhiteSpace}
        first == CHOOSE k \in kept : \A m \in kept : k <= m
        last == CHOOSE k \in kept : \A m \in kept : m <= k
    IN  IF kept = {} THEN <<>> ELSE SubSeq(str, first, last)

\* userInput.toLowerCase() without the trim
toLowerCaseNoTrim(userInput) == toLowerCase(userInput)

\* userInput.toLowerCase().trim()
toLowerCaseTrim(userInput) == trim(toLowerCase(userInput))

\* processMessage beginning every message with an empty task list
processMessageFresh(s, userInput) ==
    IF toLowerCaseTrim(userInput) = <<"/execute-todos">>
    THEN executeTodoSequence([s EXCEPT !.td = Own(<<>>)])
    ELSE chat([s EXCEPT !.td = Own(<<>>)], userInput)

\* Agent.processMessage up to the first await
processMessage(s, userInput) ==
    IF toLowerCaseTrim(userInput) = <<"/execute-todos">>
    THEN executeTodoSequence(s)
    ELSE chat(s, userInput)

(* ------------------------------------------------------------------ *)
(* Inputs                                                              *)
(* ------------------------------------------------------------------ *)

TodoIds == <<"A", "B", "C">>

\* the task lists of n items: the first n ids in list order, in any statuses
ListsOf(n) == {[k \in 1..n |-> Todo(TodoIds[k], st[k])] : st \in [1..n -> Statuses]}

TodoWrite(list) == [name |-> "todo_write", input |-> [todos |-> list]]

\* the action requests of the responses of Spec: every kind of tool call, and
\* task lists of two items that are new, partly done and done
Requests ==
    {[name |-> "read_file", input |-> [file_path |-> "notes.txt"]],
     [name |-> "unknown_tool", input |-> [file_path |-> "notes.txt"]],
     [name |-> "execute_sequence", input |-> [confirm |-> TRUE]],
     [name |-> "execute_sequence", input |-> [confirm |-> FALSE]],
     [name |-> "execute_sequence", input |-> [reason |-> "go"]],
     TodoWrite(<<Todo("A", "pending"), Todo("B", "pending")>>),
     TodoWrite(<<Todo("A", "completed"), Todo("B", "pending")>>),
     TodoWrite(<<Todo("A", "completed"), Todo("B", "completed")>>)}

\* the action requests of the responses of SpecTodos: every list of three items, and
\* the empty list
TodoRequests == {TodoWrite(list) : list \in ListsOf(3) \cup ListsOf(0)}

\* the correlation ids the endpoint gives its action requests, each one once
ToolUseIds == <<"toolu_1", "toolu_2", "toolu_3">>

\* a response: text blocks, then the requests with the next unused ids
Content(texts, reqs, used) ==
    texts \o [k \in 1..Len(reqs) |->
                [type |-> "tool_use", id |-> ToolUseIds[used + k],
                 name |-> reqs[k].name, input |-> reqs[k].input]]

TextBlock == [type |-> "text", text |-> <<"answer">>]

\* the request sequences of length n the unused ids allow
RequestSeqs(R, n, used) ==
    IF used + n > Len(ToolUseIds) THEN {} ELSE [1..n -> R]

\* a final answer without text or with two text blocks, or text and one or two requests
Responses(used) ==
    {<<>>, <<TextBlock, [type |-> "text", text |-> <<"more">>]>>}
    \cup {Content(<<TextBlock>>, reqs, used) :
            reqs \in RequestSeqs(Requests, 1, used) \cup RequestSeqs(Requests, 2, used)}

\* the action requests of the responses of SpecTools: the tools of tools.ts that read a
\* file, run a command for at most 30 seconds and fetch a URL for at most 10 seconds
ToolRequests ==
    {[name |-> "read_file", input |-> [file_path |-> "notes.txt"]],
     [name |-> "execute_command", input |-> [command |-> "sleep 60"]],
     [name |-> "http_request", input |-> [url |-> "http://slow.example"]]}

\* a final answer, or text and one or two requests for tools
ToolResponses(used) ==
    {<<TextBlock>>}
    \cup {Content(<<TextBlock>>, reqs, used) :
            reqs \in RequestSeqs(ToolRequests, 1, used) \cup RequestSeqs(ToolRequests, 2, used)}

\* the task lists of SpecWrites: of up to two items, whose ids may or may not differ
WriteLists ==
    {<<>>}
    \cup {<<Todo("A", st)>> : st \in Statuses}
    \cup {<<Todo("A", st1), Todo(id, st2)>> : st1 \in Statuses, st2 \in Statuses, id \in {"A", "B"}}

\* the action requests of the responses of SpecWrites: a write of any such list,
\* another tool, a sequence execution
WriteRequests ==
    {TodoWrite(list) : list \in WriteLists}
    \cup {[name |-> "read_file", input |-> [file_path |-> "notes.txt"]],
          [name |-> "execute_sequence", input |-> [confirm |-> TRUE]]}

\* a final answer, or text and one request
WriteResponses(used) ==
    {<<TextBlock>>}
    \cup {Content(<<TextBlock>>, reqs, used) : reqs \in RequestSeqs(WriteRequests, 1, used)}

\* a final answer, or one rewrite of the task list
TodoResponses(used) ==
    {<<TextBlock>>}
    \cup {Content(<<>>, reqs, used) : reqs \in RequestSeqs(TodoRequests, 1, used)}

UserInputs == {<<"hello">>, <<"/execute-todos">>}

(* ------------------------------------------------------------------ *)
(* The agent as a state machine                                        *)
(* ------------------------------------------------------------------ *)

None == [kind |-> "none"]

\* the agent after construction
Init ==
    /\ tools \in AgentRegistries
    /\ registered = tools
    /\ lastExecute = None
    /\ caller = None
    /\ conversationHistory = <<>>
    /\ todos = Own(<<>>)
    /\ stack = <<>>
    /\ outcome = None
    /\ lastSequence = None
    /\ calls = 0
    /\ requests = 0

Becomes(s) ==
    /\ conversationHistory' = s.h
    /\ todos' = s.td
    /\ stack' = s.st
    /\ outcome' = s.out
    /\ lastSequence' = s.seq

AtCall == stack # <<>> /\ Last(stack).fn = "chat" /\ Last(stack).pc = "call"

AtDispatch == stack # <<>> /\ Last(stack).fn = "chat" /\ Last(stack).pc = "dispatch"

AtLoop == stack # <<>> /\ Last(stack).fn = "seq" /\ Last(stack).pc = "loop"

\* the caller invokes Agent.processMessage
ProcessMessageOf(inputs) ==
    /\ stack = <<>>
    /\ calls < MaxCalls
    /\ \E userInput \in inputs :
          Becomes(processMessage([Cur EXCEPT !.out = None], userInput))
    /\ UNCHANGED <<tools, registered, lastExecute, caller, calls, requests>>

\* the completion endpoint answers the call Agent.chat awaits
RespondOf(responses) ==
    /\ AtCall
    /\ calls < MaxCalls
    /\ calls' = calls + 1
    /\ \E content \in responses :
          /\ requests' = requests + Len(parseToolCalls(content))
          /\ Becomes(respond(Cur, content))
    /\ UNCHANGED <<tools, registered, lastExecute, caller>>

ProcessMessage == ProcessMessageOf(UserInputs)

Respond == RespondOf(Responses(requests))

\* the call of the completion endpoint fails
EndpointFails ==
    /\ AtCall
    /\ calls < MaxCalls
    /\ calls' = calls + 1
    /\ Becomes(Resume(Pop(Cur), Throw(Error(<<"529 overloaded">>))))
    /\ UNCHANGED <<tools, registered, lastExecute, caller, requests>>

\* Agent.chat handles the next tool call of the response
Dispatch ==
    /\ AtDispatch
    /\ \E ran \in ToolRuns(Last(stack).toolCalls[Last(stack).i]) : Becomes(dispatch(Cur, ran))
    /\ UNCHANGED <<tools, registered, lastExecute, caller, calls, requests>>

\* Agent.executeTodoSequence runs one pass of its while loop
SeqIterate ==
    /\ AtLoop
    /\ Becomes(SeqLoop(Cur))
    /\ UNCHANGED <<tools, registered, lastExecute, caller, calls, requests>>

\* clearHistory emptying the task list as well
ClearHistoryAndTodos ==
    /\ stack = <<>>
    /\ conversationHistory' = <<>>
    /\ todos' = Own(<<>>)
    /\ UNCHANGED <<tools, registered, lastExecute, caller, stack, outcome, lastSequence, calls, requests>>

\* the caller invokes Agent.clearHistory
ClearHistory ==
    /\ stack = <<>>
    /\ conversationHistory' = <<>>
    /\ todos' = Own(Deref(conversationHistory, todos))
    /\ UNCHANGED <<tools, registered, lastExecute, caller, stack, outcome, lastSequence, calls, requests>>

Next == ProcessMessage \/ Respond \/ EndpointFails \/ Dispatch \/ SeqIterate \/ ClearHistory

Spec == Init /\ [][Next]_vars

(* ------------------------------------------------------------------ *)
(* The agent working through a task list                               *)
(* ------------------------------------------------------------------ *)

\* the agent with a task list of up to three items and a cleared history
InitTodos ==
    /\ tools \in AgentRegistries
    /\ registered = tools
    /\ lastExecute = None
    /\ caller = None
    /\ conversationHistory = <<>>
    /\ todos \in {Own(list) : list \in UNION {ListsOf(n) : n \in 0..3}}
    /\ stack = <<>>
    /\ outcome = None
    /\ lastSequence = None
    /\ calls = 0
    /\ requests = 0

\* the caller runs the sequence, once
RunSequence == outcome = None /\ ProcessMessageOf({<<" ", "/Execute-Todos", " ">>})

RespondTodos == RespondOf(TodoResponses(requests))

NextTodos == RunSequence \/ RespondTodos \/ Dispatch \/ SeqIterate

SpecTodos == InitTodos /\ [][NextTodos]_vars

(* ------------------------------------------------------------------ *)
(* The agent using the tools of tools.ts                               *)
(* ------------------------------------------------------------------ *)

\* the caller sends a message that is no command
Chat == ProcessMessageOf({<<"hello">>})

RespondTools == RespondOf(ToolResponses(requests))

NextTools == Chat \/ RespondTools \/ Dispatch

SpecTools == Init /\ [][NextTools]_vars

(* ------------------------------------------------------------------ *)
(* The agent and the writes of its task list                           *)
(* ------------------------------------------------------------------ *)

RespondWrites == calls < MaxWrites /\ RespondOf(WriteResponses(requests))

NextWrites == ProcessMessage \/ RespondWrites \/ Dispatch \/ SeqIterate \/ ClearHistory

SpecWrites == Init /\ [][NextWrites]_vars

(* ------------------------------------------------------------------ *)
(* The registry on its own                                             *)
(* ------------------------------------------------------------------ *)

\* the tools a caller registers: two names, each in two versions
RegistryTools == {Tool(name, description) : name \in {"read_file", "search"},
                                            description \in {"first", "second"}}

RegistryCalls == {[name |-> name, input |-> [q |-> "x"]] :
                    name \in {"read_file", "search", "unknown_tool"}}

\* what a tool's execute function may do: resolve, throw an Error, reject with another value
Runs == {Resolve(<<"ok">>), Reject(Error(<<"ENOENT">>))} \cup {Reject(v) : v \in NonErrors}

\* new ToolRegistry()
InitRegistry ==
    /\ tools = <<>>
    /\ registered = <<>>
    /\ lastExecute = None
    /\ caller = None
    /\ conversationHistory = <<>>
    /\ todos = Own(<<>>)
    /\ stack = <<>>
    /\ outcome = None
    /\ lastSequence = None
    /\ calls = 0
    /\ requests = 0

\* the caller invokes ToolRegistry.register
Register ==
    /\ Len(registered) < MaxRegister
    /\ \E tool \in RegistryTools :
          /\ tools' = register(tools, tool)
          /\ registered' = Append(registered, tool)
    /\ UNCHANGED <<lastExecute, caller, conversationHistory, todos, stack, outcome, lastSequence,
                   calls, requests>>

\* the caller invokes ToolRegistry.execute and awaits it
Execute ==
    /\ \E toolCall \in RegistryCalls, ran \in Runs :
          lastExecute' = [kind |-> "execute", toolCall |-> toolCall, registry |-> tools,
                          ran |-> ran, result |-> execute(tools, toolCall, ran)]
    /\ UNCHANGED <<tools, registered, caller, conversationHistory, todos, stack, outcome, lastSequence,
                   calls, requests>>

NextRegistry == Register \/ Execute

SpecRegistry == InitRegistry /\ [][NextRegistry]_vars

(* ------------------------------------------------------------------ *)
(* The read_file tool on a file system                                 *)
(* ------------------------------------------------------------------ *)

\* A path is a string: a sequence of characters. Names are sequences of characters
\* too, and a parsed path is whether it is absolute, and its names.
Slash == <<"/">>

\* the string of the absolute path of the names
RECURSIVE PathString(_)
PathString(names) ==
    IF names = <<>> THEN <<>>
    ELSE Slash \o names[1] \o PathString(Tail(names))

\* the string of a parsed path as a caller writes it
RECURSIVE RelativeString(_)
RelativeString(names) ==
    IF names = <<>> THEN <<>>
    ELSE IF Len(names) = 1 THEN names[1]
    ELSE names[1] \o Slash \o RelativeString(Tail(names))

Written(p) == IF p.abs THEN PathString(p.names) ELSE RelativeString(p.names)

\* the names left when . and .. are worked off, done holding the names so far
RECURSIVE Normalize(_, _)
Normalize(names, done) ==
    IF names = <<>> THEN done
    ELSE IF names[1] = <<".", ".">>
    THEN Normalize(Tail(names), IF done = <<>> THEN <<>> ELSE Front(done))
    ELSE IF names[1] = <<".">> THEN Normalize(Tail(names), done)
    ELSE Normalize(Tail(names), Append(done, names[1]))

\* path.resolve(file_path) in the working directory cwd: the names of the absolute path
resolve(cwd, p) == Normalize(IF p.abs THEN p.names ELSE cwd \o p.names, <<>>)

\* String.prototype.startsWith
startsWith(str, prefix) ==
    Len(str) >= Len(prefix) /\ SubSeq(str, 1, Len(prefix)) = prefix

\* readFileTool.execute for the path p, the working directory cwd and the files that
\* exist (the names of their absolute paths)
readFileExecute(p, cwd, files) ==
    LET safePath == PathString(resolve(cwd, p))
        currentDir == PathString(cwd)
    IN  IF ~startsWith(safePath, currentDir)
        THEN Reject(Error(<<"Failed to read file: ",
                            "Access denied: file must be within current directory">>))
        ELSE IF resolve(cwd, p) \in files
        THEN Resolve(<<"File contents of ">> \o Written(p) \o <<":\n\n", "data">>)
        ELSE Reject(Error(<<"Failed to read file: ", "ENOENT: no such file or directory">>))

\* directories and files of the model's file system
WorkDirs == {<<<<"w">>>>, <<<<"w", "2">>>>}

AllFiles == {<<<<"w">>, <<"f">>>>, <<<<"w", "2">>, <<"f">>>>, <<<<"e">>, <<"f">>>>}

\* the paths a request names: absolute and relative, inside and outside
FilePaths ==
    {[abs |-> TRUE, names |-> file] : file \in AllFiles}
    \cup {[abs |-> FALSE, names |-> names] :
            names \in {<<<<"f">>>>, <<<<".">>, <<"f">>>>, <<<<"d">>, <<".", ".">>, <<"f">>>>,
                       <<<<".", ".">>, <<"w">>, <<"f">>>>,
                       <<<<".", ".">>, <<"w", "2">>, <<"f">>>>,
                       <<<<".", ".">>, <<"e">>, <<"f">>>>}}

InitReadFile ==
    /\ tools = register(<<>>, readFileTool)
    /\ registered = tools
    /\ lastExecute = None
    /\ caller = None
    /\ conversationHistory = <<>>
    /\ todos = Own(<<>>)
    /\ stack = <<>>
    /\ outcome = None
    /\ lastSequence = None
    /\ calls = 0
    /\ requests = 0

\* the caller has the registry execute read_file
ReadFile ==
    /\ \E p \in FilePaths, cwd \in WorkDirs, files \in SUBSET AllFiles :
          lastExecute' =
              [kind |-> "read_file", file_path |-> p, cwd |-> cwd, files |-> files,
               result |-> execute(tools, [name |-> "read_file", input |-> [file_path |-> Written(p)]],
                                  readFileExecute(p, cwd, files))]
    /\ UNCHANGED <<tools, registered, caller, conversationHistory, todos, stack, outcome, lastSequence,
                   calls, requests>>

NextReadFile == ReadFile

SpecReadFile == InitReadFile /\ [][NextReadFile]_vars

(* ------------------------------------------------------------------ *)
(* Properties                                                          *)
(* ------------------------------------------------------------------ *)

IsAssistantTurn(turn) == turn.role = "assistant"

\* a user turn of result blocks
IsResultsTurn(turn) == turn.role = "user" /\ "blocks" \in DOMAIN turn.content

\* the ids of the action requests of an assistant turn, in order
RequestIds(turn) ==
    LET ps == Positions(Has(turn.content.blocks, "type", "tool_use"), 1)
    IN  [k \in 1..Len(ps) |-> turn.content.blocks[ps[k]].id]

\* the correlation ids of the blocks of a results turn, in order
ResultIds(turn) == [k \in 1..Len(turn.content.blocks) |-> turn.content.blocks[k].tool_use_id]

\* C1: the result blocks of a turn carry, in order, the ids of the action requests of
\* the response they answer: every user turn of result blocks has the id sequence of
\* the requests of an earlier assistant turn (so no id twice, none left out).
C1_ResultsCarryRequestIds ==
    \A j \in 1..Len(conversationHistory) :
        IsResultsTurn(conversationHistory[j]) =>
            \E i \in 1..(j - 1) :
                /\ IsAssistantTurn(conversationHistory[i])
                /\ RequestIds(conversationHistory[i]) = ResultIds(conversationHistory[j])

RegisteredIn(m, name) == \E k \in 1..Len(m) : m[k].name = name

\* C3: ToolRegistry.execute with a name that is not registered rejects with the error
\* "Tool '<name>' not found", returns no string and invokes no tool function.
C3_UnregisteredNameRejects ==
    (lastExecute.kind = "execute"
        /\ ~RegisteredIn(lastExecute.registry, lastExecute.toolCall.name))
    => /\ lastExecute.result.kind = "throw"
       /\ lastExecute.result.error = Error(<<"Tool '", lastExecute.toolCall.name, "' not found">>)
       /\ lastExecute.result.invoked = <<>>

\* a call of an unregistered name on a registry that holds tools
C3_Witness ==
    /\ lastExecute.kind = "execute"
    /\ lastExecute.registry # <<>>
    /\ ~RegisteredIn(lastExecute.registry, lastExecute.toolCall.name)
    /\ lastExecute.result.kind = "throw"

\* the message the spec gives a failure: an Error's message, else the value as a string
FailureText(e) ==
    IF "error" \in DOMAIN e THEN e.message
    ELSE IF e.thrown = "number" THEN <<e.digits>> ELSE e.text

\* C4: ToolRegistry.execute with a registered name whose tool fails never rejects: it
\* resolves to "Error executing tool '<name>': " followed by the failure's message.
C4_ToolFailureContained ==
    (lastExecute.kind = "execute"
        /\ RegisteredIn(lastExecute.registry, lastExecute.toolCall.name)
        /\ lastExecute.ran.kind = "reject")
    => /\ lastExecute.result.kind = "return"
       /\ lastExecute.result.value =
              <<"Error executing tool '", lastExecute.toolCall.name, "': ">>
                  \o FailureText(lastExecute.ran.error)

\* a registered tool rejected with a value that is no Error, and the call resolved
C4_Witness ==
    /\ lastExecute.kind = "execute"
    /\ RegisteredIn(lastExecute.registry, lastExecute.toolCall.name)
    /\ lastExecute.ran.kind = "reject"
    /\ "thrown" \in DOMAIN lastExecute.ran.error
    /\ lastExecute.result.kind = "return"

\* the agent is inside Agent.chat or Agent.executeTodoSequence
Running == stack # <<>> \/ stack' # <<>>

\* C2: while Agent.chat and Agent.executeTodoSequence run, the history only grows and
\* every turn it held stays as it was, also when auto-progression sets the status of
\* an item of a list that an earlier assistant turn supplied.
C2_HistoryAppendOnly ==
    [][Running =>
          /\ Len(conversationHistory') >= Len(conversationHistory)
          /\ \A i \in 1..Len(conversationHistory) :
                conversationHistory'[i] = conversationHistory[i]]_vars

IsDirectiveTurn(turn) ==
    /\ turn.role = "user"
    /\ "text" \in DOMAIN turn.content
    /\ turn.content.text[1] = "Please work on this specific todo item: \""

SuppliesTodos(turn) ==
    /\ turn.role = "assistant"
    /\ \E k \in 1..Len(turn.content.blocks) :
          /\ IsToolUse(turn.content.blocks[k])
          /\ turn.content.blocks[k].name = "todo_write"
          /\ getNextPendingTodo(turn.content.blocks[k].input.todos) # Undefined
          /\ getCurrentInProgressTodo(turn.content.blocks[k].input.todos) = Undefined

\* auto-progression has started an item of a list that an assistant turn supplied
C2_Witness ==
    /\ \E i, j \in 1..Len(conversationHistory) :
          /\ i < j
          /\ SuppliesTodos(conversationHistory[i])
          /\ IsDirectiveTurn(conversationHistory[j])
    /\ todos.at = "own"
    /\ getCurrentInProgressTodo(todos.list) # Undefined

TodosNow == Deref(conversationHistory, todos)

\* C5: when the item executeTodoSequence selected and set to in_progress is still
\* in_progress after the chat cycle, the while loop is left after that cycle: no call
\* of executeTodoSequence is back at its while loop, about to run another pass,
\* with the item of its last cycle in_progress.
C5_StalledItemEndsSequence ==
    \A d \in 1..Len(stack) :
        (stack[d].fn = "seq" /\ stack[d].pc = "loop" /\ stack[d].cycles >= 1
            /\ getNextPendingTodo(TodosNow) # Undefined)
        => StatusOf(TodosNow, stack[d].currentTodo) # "in_progress"

ReportText(completed, total) ==
    <<"Todo sequence completed! ", ToString(completed), "/", ToString(total), " todos finished.">>

\* a sequence execution the caller started has returned its report; it started on a
\* list with pending and without in_progress items and every chat cycle did its item
SequenceRanSmoothly ==
    /\ stack = <<>>
    /\ outcome.kind = "return"
    /\ outcome.value[1] = "Todo sequence completed! "
    /\ lastSequence.kind = "sequence"
    /\ NumberOf(lastSequence.start, "pending") >= 1
    /\ NumberOf(lastSequence.start, "in_progress") = 0
    /\ lastSequence.smooth

\* C6 as claimed: sequence execution on a list with N pending and no in_progress
\* items, none of which stalls, ends after at most N chat cycles and reports N
\* completed out of N total.
C6_ReportsNOfN ==
    SequenceRanSmoothly
    => /\ lastSequence.cycles <= NumberOf(lastSequence.start, "pending")
       /\ outcome.value = ReportText(NumberOf(lastSequence.start, "pending"),
                                     NumberOf(lastSequence.start, "pending"))

\* C6 as amended: such a sequence execution on a list of T items, N of them pending,
\* whose chat cycles keep the items and what is completed, never finds an item
\* in_progress at the top of its while loop (so every pass starts a chat cycle or
\* ends the loop), ends after at most N chat cycles and reports T completed out of
\* T total.
C6_ReportsAllCompleted ==
    /\ SequenceRanSmoothly
       => /\ lastSequence.cycles <= NumberOf(lastSequence.start, "pending")
          /\ outcome.value = ReportText(Len(lastSequence.start), Len(lastSequence.start))
    /\ (AtLoop /\ Len(stack) = 1
            /\ NumberOf(Last(stack).start, "in_progress") = 0
            /\ Last(stack).smooth)
       => /\ getCurrentInProgressTodo(TodosNow) = Undefined
          /\ Last(stack).cycles + NumberOf(TodosNow, "pending")
                <= NumberOf(Last(stack).start, "pending")

\* a sequence over a list of three items, two of them pending, that took one chat
\* cycle for each
C6_Witness ==
    /\ SequenceRanSmoothly
    /\ NumberOf(lastSequence.start, "pending") = 2
    /\ lastSequence.cycles = 2
    /\ outcome.value = ReportText(3, 3)

FirstPending(list) == CHOOSE k \in 1..Len(list) :
                        /\ list[k].status = "pending"
                        /\ \A j \in 1..(k - 1) : list[j].status # "pending"

WithStarted(list, k) == [list EXCEPT ![k].status = "in_progress"]

\* the list an auto-progression step of this step works on: the task list at the top
\* of the while loop of executeTodoSequence, the supplied list in a todo_write dispatch
AutoProgressBase ==
    IF AtLoop THEN TodosNow ELSE Last(stack).toolCalls[Last(stack).i].input.todos

AutoProgressStep ==
    \/ AtLoop
    \/ AtDispatch /\ Last(stack).toolCalls[Last(stack).i].name = "todo_write"

\* C7: auto-progression sets no item to in_progress while the list holds an
\* in_progress item, and when it sets one it is the first pending item in list
\* order; at the top of the loop of executeTodoSequence it sets one whenever none is
\* in_progress and one is pending.
C7_AutoProgressPicksFirstPending ==
    [][AutoProgressStep =>
        LET base == AutoProgressBase
            after == Deref(conversationHistory', todos')
        IN  /\ NumberOf(base, "in_progress") >= 1 => after = base
            /\ after # base =>
                  /\ NumberOf(base, "pending") >= 1
                  /\ after = WithStarted(base, FirstPending(base))
            /\ (AtLoop /\ NumberOf(base, "in_progress") = 0 /\ NumberOf(base, "pending") >= 1)
                  => after = WithStarted(base, FirstPending(base))]_vars

\* executeTodoSequence started on [A: pending, B: pending, ...] and selected A, not B
C7_Witness ==
    /\ Len(stack) = 2
    /\ stack[1].fn = "seq"
    /\ stack[1].cycles = 1
    /\ stack[1].currentTodo = "A"
    /\ Len(stack[1].start) >= 2
    /\ stack[1].start[1].status = "pending"
    /\ stack[1].start[2].status = "pending"
    /\ calls = 0
    /\ TodosNow[1].status = "in_progress"
    /\ TodosNow[2].status = "pending"

\* the innermost call of Agent.chat that awaits, in its for loop, the sequence
\* execution the innermost completion call belongs to; 0 if there is none
EnclosingDispatch ==
    IF Len(stack) >= 3 /\ stack[Len(stack) - 1].fn = "seq" /\ stack[Len(stack) - 2].fn = "chat"
    THEN Len(stack) - 2 ELSE 0

EndpointError == Error(<<"529 overloaded">>)

\* C8 as claimed: a failure of the completion call is thrown to the caller on every
\* path; the core never catches it and never turns it into a result block.
C8_EndpointFailureAlwaysThrown ==
    [][EndpointFails => (stack' = <<>> /\ outcome' = Throw(EndpointError))]_vars

\* the results a chat frame holds, or has just appended as a user turn
ResultsAfter(d) ==
    IF stack'[d].pc = "call" THEN Last(conversationHistory').content.blocks
    ELSE stack'[d].toolResults

\* C8 as amended: the failure is thrown to the caller of processMessage, chat or
\* executeTodoSequence, unless the failing chat cycle belongs to a sequence execution
\* that an execute_sequence request started: then the catch of the dispatching
\* Agent.chat turns it into one error-flagged result block and that chat goes on.
C8_EndpointFailureThrownOrCaughtByDispatch ==
    [][EndpointFails =>
        IF EnclosingDispatch = 0
        THEN stack' = <<>> /\ outcome' = Throw(EndpointError)
        ELSE LET d == EnclosingDispatch
             IN  /\ Len(stack') = d
                 /\ outcome' = outcome
                 /\ ResultsAfter(d) =
                        Append(stack[d].toolResults,
                               [type |-> "tool_result",
                                tool_use_id |-> ResultsAfter(d)[Len(ResultsAfter(d))].tool_use_id,
                                content |-> <<"Error: ", "529 overloaded">>,
                                is_error |-> TRUE])]_vars

\* the completion call failed in a chat cycle of a sequence the caller started: thrown
C8_Witness ==
    /\ outcome = Throw(EndpointError)
    /\ stack = <<>>
    /\ lastSequence = None
    /\ Len(conversationHistory) = 1
    /\ IsDirectiveTurn(conversationHistory[1])

\* the failure was caught by the chat that dispatched execute_sequence
C8_CaughtWitness ==
    /\ outcome = None
    /\ stack # <<>>
    /\ \E j \in 1..Len(conversationHistory) :
          /\ IsResultsTurn(conversationHistory[j])
          /\ \E k \in 1..Len(conversationHistory[j].content.blocks) :
                conversationHistory[j].content.blocks[k].content = <<"Error: ", "529 overloaded">>

NotFoundText(name) == <<"Error: ", "Tool '", name, "' not found">>

\* C9: a request for a tool the registry does not hold does not make Agent.chat throw:
\* it adds exactly one error-flagged result block with the error text to the results
\* so far, the next request of the turn is dispatched, and after the last one the
\* results are appended and the next completion call is made.
C9_UnknownToolBecomesErrorBlock ==
    [][(AtDispatch
          /\ Last(stack).toolCalls[Last(stack).i].name # "execute_sequence"
          /\ ~RegisteredIn(tools, Last(stack).toolCalls[Last(stack).i].name))
       => LET d == Len(stack)
              f == Last(stack)
          IN  /\ Len(stack') = d
              /\ outcome' = outcome
              /\ Len(ResultsAfter(d)) = Len(f.toolResults) + 1
              /\ SubSeq(ResultsAfter(d), 1, Len(f.toolResults)) = f.toolResults
              /\ LET block == Last(ResultsAfter(d))
                 IN  /\ block.type = "tool_result"
                     /\ "is_error" \in DOMAIN block /\ block.is_error
                     /\ block.content = NotFoundText(f.toolCalls[f.i].name)
              /\ IF f.i < Len(f.toolCalls)
                 THEN stack'[d].pc = "dispatch" /\ stack'[d].i = f.i + 1
                 ELSE /\ stack'[d].pc = "call"
                      /\ conversationHistory' =
                            Append(conversationHistory,
                                   [role |-> "user", content |-> Blocks(ResultsAfter(d))])]_vars

\* a turn asked for a registered and for an unknown tool: both were answered, the
\* unknown one with an error block, and the next completion call is under way
C9_Witness ==
    /\ AtCall
    /\ conversationHistory # <<>>
    /\ IsResultsTurn(Last(conversationHistory))
    /\ LET blocks == Last(conversationHistory).content.blocks
       IN  /\ Len(blocks) = 2
           /\ blocks[1].content = NotFoundText("unknown_tool")
           /\ "is_error" \in DOMAIN blocks[1]
           /\ blocks[2].content[1] = "File contents of "

\* the result block that answers a request
Answers(toolCall, block) ==
    /\ block.type = "tool_result"
    /\ CASE toolCall.name = "todo_write" /\ RegisteredIn(tools, "todo_write") ->
              block.content = todoWriteExecute(toolCall.input)
                                \o <<"\n\nInternal todo state updated: ">>
                                \o stringify(toolCall.input.todos)
         [] toolCall.name = "execute_sequence" ->
              IF "confirm" \in DOMAIN toolCall.input /\ toolCall.input.confirm = FALSE
              THEN block.content = <<"Todo sequence execution cancelled.">>
              ELSE block.content[1] \in {"Todo sequence completed! ",
                                         "No pending todos to execute.", "Error: "}
         [] toolCall.name = "read_file" ->
              block.content[1] \in {"File contents of ", "Error executing tool '"}
         [] OTHER -> block.content = NotFoundText(toolCall.name)

\* the call of Agent.chat at depth d ends its for loop in this step
EndsDispatch(d) ==
    /\ stack[d].fn = "chat"
    /\ stack[d].pc \in {"dispatch", "await"}
    /\ Len(stack') >= d
    /\ stack'[d].pc = "call"

\* the turns this step appends
Appended ==
    SubSeq(conversationHistory', Len(conversationHistory) + 1, Len(conversationHistory'))

\* C10: a user turn of result blocks is appended exactly when a call of Agent.chat
\* ends the dispatch of a response, one turn for it; for a response of k requests it
\* holds k blocks, the i-th the outcome of the i-th request, also when a task-list
\* write of the turn made auto-progression append its directive.
C10_OneResultsTurnInRequestOrder ==
    [][Running =>
        /\ Cardinality({k \in 1..Len(Appended) : IsResultsTurn(Appended[k])})
              = Cardinality({d \in 1..Len(stack) : EndsDispatch(d)})
        /\ \A d \in 1..Len(stack) :
              EndsDispatch(d) =>
                  LET blocks == Last(conversationHistory').content.blocks
                  IN  /\ Len(stack') = d
                      /\ IsResultsTurn(Last(conversationHistory'))
                      /\ Len(stack[d].toolCalls) >= 1
                      /\ Len(blocks) = Len(stack[d].toolCalls)
                      /\ \A i \in 1..Len(blocks) : Answers(stack[d].toolCalls[i], blocks[i])]_vars

\* a response of two requests, a task-list write among them that made auto-progression
\* append its directive, has got its one turn of two result blocks
C10_Witness ==
    /\ AtCall
    /\ Len(conversationHistory) >= 3
    /\ LET n == Len(conversationHistory)
       IN  /\ IsResultsTurn(conversationHistory[n])
           /\ Len(conversationHistory[n].content.blocks) = 2
           /\ IsDirectiveTurn(conversationHistory[n - 1])
           /\ IsAssistantTurn(conversationHistory[n - 2])
           /\ Len(RequestIds(conversationHistory[n - 2])) = 2
           /\ conversationHistory[n].content.blocks[1].content[1] = "File contents of "

(* ------------------------------------------------------------------ *)
(* Properties of the registry                                          *)
(* ------------------------------------------------------------------ *)

\* C11: after any register calls getToolDefinitions() is as long as getAll(), and its
\* k-th definition has the name, description and input_schema of the k-th tool and
\* no other field (no execute).
C11_DefinitionsProjectTools ==
    LET defs == getToolDefinitions(tools)
        all == getAll(tools)
    IN  /\ Len(defs) = Len(all)
        /\ \A k \in 1..Len(defs) :
              /\ DOMAIN defs[k] = {"name", "description", "input_schema"}
              /\ defs[k].name = all[k].name
              /\ defs[k].description = all[k].description
              /\ defs[k].input_schema = all[k].input_schema

\* two tools are registered, one of them for the second time
C11_Witness ==
    /\ Len(registered) = 3
    /\ Len(getToolDefinitions(tools)) = 2
    /\ getToolDefinitions(tools)[1].name # getToolDefinitions(tools)[2].name

\* the names register was called with
RegisteredNames == {registered[k].name : k \in 1..Len(registered)}

\* the names a caller may look up
LookupNames == {toolCall.name : toolCall \in RegistryCalls}

\* C12: every tool getAll() returns is what get() finds under its name, the names
\* getAll() returns are pairwise distinct, and get() finds nothing under a name that
\* was never registered.
C12_EnumerationResolves ==
    LET all == getAll(tools)
    IN  /\ \A k \in 1..Len(all) : get(tools, all[k].name) = all[k]
        /\ \A i, j \in 1..Len(all) : i # j => all[i].name # all[j].name
        /\ \A n \in LookupNames \ RegisteredNames : get(tools, n) = Undefined

\* a name was registered twice with different tools, another name in between
C12_Witness ==
    /\ Len(registered) = 3
    /\ registered[1].name = registered[3].name
    /\ registered[1] # registered[3]
    /\ registered[2].name # registered[1].name
    /\ Len(getAll(tools)) = 2

\* the tool of the last register call with the name n
LastRegistered(n) ==
    registered[CHOOSE k \in 1..Len(registered) :
                  /\ registered[k].name = n
                  /\ \A j \in (k + 1)..Len(registered) : registered[j].name # n]

\* C13: register is last-registered-wins: under every registered name get() returns
\* the tool of the last register call with that name, execute invokes that tool's
\* execute function, and getAll() holds exactly one tool of that name (so the tools
\* of the other names are as their own last registration left them).
C13_LastRegisteredWins ==
    /\ Len(getAll(tools)) = Cardinality(RegisteredNames)
    /\ \A n \in RegisteredNames :
          /\ get(tools, n) = LastRegistered(n)
          /\ \A ran \in Runs :
                execute(tools, [name |-> n, input |-> [q |-> "x"]], ran).invoked
                    = <<LastRegistered(n).execute>>
          /\ Cardinality({k \in 1..Len(getAll(tools)) : getAll(tools)[k].name = n}) = 1

\* after register(t1) and register(t2) with the name of t1, execute dispatched to t2
C13_Witness ==
    /\ Len(registered) = 2
    /\ registered[1].name = registered[2].name
    /\ registered[1] # registered[2]
    /\ lastExecute.kind = "execute"
    /\ lastExecute.registry = tools
    /\ lastExecute.toolCall.name = registered[2].name
    /\ lastExecute.result.invoked = <<registered[2].execute>>

\* the first and the last register call with the name n
FirstIndex(n) ==
    CHOOSE k \in 1..Len(registered) :
        /\ registered[k].name = n
        /\ \A j \in 1..(k - 1) : registered[j].name # n

LastIndex(n) ==
    CHOOSE k \in 1..Len(registered) :
        /\ registered[k].name = n
        /\ \A j \in (k + 1)..Len(registered) : registered[j].name # n

\* C14 as claimed: getToolDefinitions() lists a tool registered later after a tool
\* registered earlier, also when a name is registered again after other tools.
C14_ListedInRegistrationOrder ==
    LET defs == getToolDefinitions(tools)
    IN  \A i, j \in 1..Len(defs) :
            i < j => LastIndex(defs[i].name) < LastIndex(defs[j].name)

\* C14 as amended: getToolDefinitions() lists the tools in the order in which their
\* names were first registered; a name registered again keeps its place and carries
\* the description and schema of the tool registered last.
C14_ListedInFirstRegistrationOrder ==
    LET defs == getToolDefinitions(tools)
    IN  /\ {defs[k].name : k \in 1..Len(defs)} = RegisteredNames
        /\ \A i, j \in 1..Len(defs) :
              i < j => FirstIndex(defs[i].name) < FirstIndex(defs[j].name)
        /\ \A k \in 1..Len(defs) :
              /\ defs[k].description = LastRegistered(defs[k].name).description
              /\ defs[k].input_schema = LastRegistered(defs[k].name).input_schema

\* a name was registered again after another tool and is still listed first
C14_Witness ==
    /\ Len(registered) = 3
    /\ registered[1].name = registered[3].name
    /\ registered[1].description # registered[3].description
    /\ registered[2].name # registered[1].name
    /\ getToolDefinitions(tools)[1].name = registered[3].name
    /\ getToolDefinitions(tools)[1].description = registered[3].description
    /\ getToolDefinitions(tools)[2].name = registered[2].name

(* ------------------------------------------------------------------ *)
(* Properties of the rounds of Agent.chat                              *)
(* ------------------------------------------------------------------ *)

\* the completion call of this step resolved: its response is the turn appended first
Responded ==
    /\ AtCall
    /\ Len(conversationHistory') > Len(conversationHistory)
    /\ IsAssistantTurn(conversationHistory'[Len(conversationHistory) + 1])

Response == conversationHistory'[Len(conversationHistory) + 1].content.blocks

\* the text of the first text block of a response, or the fallback
FirstTextOf(content) ==
    IF \E k \in 1..Len(content) : content[k].type = "text"
    THEN content[CHOOSE k \in 1..Len(content) :
                    /\ content[k].type = "text"
                    /\ \A j \in 1..(k - 1) : content[j].type # "text"].text
    ELSE <<"No text response">>

HasRequests(content) == \E k \in 1..Len(content) : content[k].type = "tool_use"

\* C15: Agent.chat returns in the first round whose response holds no action request
\* and in no other round: on a response without requests the call ends and hands its
\* caller the text of the first text block, or 'No text response'; on a response with
\* requests the call stays and goes on to dispatch; and a call of chat ends in no
\* other step, except when its completion call fails.
C15_ReturnsFirstTextOfFinalRound ==
    [][/\ Responded =>
            LET d == Len(stack)
            IN  IF HasRequests(Response)
                THEN /\ Len(stack') = d
                     /\ stack'[d].fn = "chat"
                     /\ stack'[d].pc = "dispatch"
                     /\ outcome' = outcome
                ELSE /\ Len(stack') < d
                     /\ d = 1 => outcome' = Return(FirstTextOf(Response))
                     /\ (d > 1 /\ Len(stack') = d - 1 /\ stack[d - 1].fn = "seq")
                            => stack'[d - 1].result
                                  = stack[d - 1].result \o FirstTextOf(Response) \o <<"\n\n">>
       /\ (stack # <<>> /\ Last(stack).fn = "chat" /\ Len(stack') < Len(stack))
            => /\ AtCall
               /\ calls' = calls + 1
               /\ Responded => ~HasRequests(Response)]_vars

\* chat returned the fallback in its second round, after a round with a request
C15_Witness ==
    /\ stack = <<>>
    /\ outcome = Return(<<"No text response">>)
    /\ Len(conversationHistory) = 4
    /\ IsResultsTurn(conversationHistory[3])
    /\ conversationHistory[4].content.blocks = <<>>

\* the assistant turns among the turns this step appends
AssistantTurnsAppended ==
    Cardinality({k \in 1..Len(Appended) : IsAssistantTurn(Appended[k])})

\* C16: every completion call is made with the whole history as it is then, which
\* ends with a user turn; and when the call resolves, the response is appended as
\* one assistant turn, with or without a text block, before a request of it is
\* dispatched (a call that appends no response has failed).
C16_CallsSendHistoryResponsesAppended ==
    [][/\ AtCall' =>
            /\ Last(stack').messages = conversationHistory'
            /\ conversationHistory' # <<>>
            /\ Last(conversationHistory').role = "user"
       /\ (AtCall /\ calls' = calls + 1) =>
            IF Responded
            THEN /\ AssistantTurnsAppended = 1
                 /\ HasRequests(Response) =>
                       /\ Appended = <<[role |-> "assistant", content |-> Blocks(Response)]>>
                       /\ AtDispatch'
                       /\ Last(stack').content = Response
                       /\ Last(stack').turn = Len(conversationHistory')
                       /\ Last(stack').i = 1
                       /\ Last(stack').toolResults = <<>>
            ELSE /\ requests' = requests
                 /\ AssistantTurnsAppended = 0
                 /\ IF EnclosingDispatch = 0
                    THEN outcome' = Throw(EndpointError)
                    ELSE Last(ResultsAfter(EnclosingDispatch)).content
                            = <<"Error: ", "529 overloaded">>]_vars

\* a completion call made with a history of several turns, among them a response
\* without a text block
C16_Witness ==
    /\ AtCall
    /\ Len(Last(stack).messages) >= 3
    /\ Last(stack).messages = conversationHistory
    /\ \E k \in 1..Len(conversationHistory) :
          /\ IsAssistantTurn(conversationHistory[k])
          /\ conversationHistory[k].content.blocks = <<>>

(* ------------------------------------------------------------------ *)
(* Properties of the return value of executeTodoSequence               *)
(* ------------------------------------------------------------------ *)

\* the task lists on which the while loop of executeTodoSequence ends by its
\* condition: no item is pending
ListsWithoutPending ==
    {list \in UNION {ListsOf(n) : n \in 1..Len(TodoIds)} : NumberOf(list, "pending") = 0}

\* the safety check of the sequence execution the caller started has left the loop,
\* and the call has ended
StalledSequenceEnded ==
    /\ stack = <<>>
    /\ lastSequence.kind = "sequence"
    /\ lastSequence.stuck
    /\ outcome # None

\* C17: a sequence execution that detected a stalled item returns normally, and what
\* it returns is a stalled-task report: none of the reports that a sequence which ran
\* until no item was pending returns for its list.
C17_StalledReportDistinct ==
    StalledSequenceEnded
    => /\ outcome.kind = "return"
       /\ \A list \in ListsWithoutPending : outcome.value # ReportText(
              NumberOf(list, "completed"), Len(list))

(* ------------------------------------------------------------------ *)
(* Properties of the tools                                             *)
(* ------------------------------------------------------------------ *)

\* the request Agent.chat dispatches in this step
Dispatched == Last(stack).toolCalls[Last(stack).i]

\* the result block this step of dispatch adds
ResultAdded == Last(ResultsAfter(Len(stack)))

\* where the text that Agent.chat adds to the tool's summary begins
InternalAt(summary) ==
    CHOOSE j \in 1..Len(summary) : summary[j] = "\n\nInternal todo state updated: "

\* C18: the summary of the task-list tool states, for every list written, the numbers
\* of its completed, in_progress and pending items (which add up to its length); for
\* the empty list they are 0 and the summary goes on with the empty-list notice, for
\* any other list with the rendering of its items.
C18_SummaryCountsMatchInput ==
    [][(AtDispatch /\ Dispatched.name = "todo_write" /\ RegisteredIn(tools, "todo_write"))
       => LET list == Dispatched.input.todos
              summary == ResultAdded.content
          IN  /\ summary[1] = "Todos updated successfully!\n\nProgress: "
              /\ summary[2] = ToString(NumberOf(list, "completed"))
              /\ summary[3] = " completed, "
              /\ summary[4] = ToString(NumberOf(list, "in_progress"))
              /\ summary[5] = " in progress, "
              /\ summary[6] = ToString(NumberOf(list, "pending"))
              /\ summary[7] = " pending\n\n"
              /\ NumberOf(list, "completed") + NumberOf(list, "in_progress")
                    + NumberOf(list, "pending") = Len(list)
              /\ IF list = <<>>
                 THEN /\ summary[8] = "No todos in the list."
                      /\ summary[9] = "\n\nInternal todo state updated: "
                 ELSE /\ summary[8] = "Current todos:\n"
                      /\ Cardinality({j \in 9..(InternalAt(summary) - 1) : summary[j] = "\n"})
                            = Len(list)
                      /\ \A k \in 1..Len(list) :
                            \E j \in 9..(InternalAt(summary) - 2) :
                                <<summary[j], summary[j + 1]>> = list[k].content
                      /\ \A k \in 1..Len(summary) : summary[k] # "No todos in the list."]_vars

\* the tool has answered a write of the empty list
C18_Witness ==
    /\ conversationHistory # <<>>
    /\ IsResultsTurn(Last(conversationHistory))
    /\ LET summary == Last(conversationHistory).content.blocks[1].content
       IN  /\ Len(summary) >= 8
           /\ summary[2] = "0" /\ summary[4] = "0" /\ summary[6] = "0"
           /\ summary[8] = "No todos in the list."

\* the resolved path lies in the working directory: it is the directory or below it
Inside(names, cwd) == Len(names) >= Len(cwd) /\ SubSeq(names, 1, Len(cwd)) = cwd

\* C19: read_file fails for every path that resolves to a place outside the working
\* directory, a sibling directory whose name begins with the working directory's name
\* included: the registry returns the contained error string and no file contents.
C19_OutsidePathsFail ==
    (lastExecute.kind = "read_file"
        /\ ~Inside(resolve(lastExecute.cwd, lastExecute.file_path), lastExecute.cwd))
    => /\ lastExecute.result.kind = "return"
       /\ SubSeq(lastExecute.result.value, 1, 4)
              = <<"Error executing tool '", "read_file", "': ", "Failed to read file: ">>

\* the string ToolRegistry.execute returns for a tool that failed with the message
ContainedError(name, message) == <<"Error executing tool '", name, "': ">> \o message

\* the contents a result block may have when the tool of the request ran: what the
\* tool returned, or the contained error string of the failure it raised
OutcomesOf(toolCall) ==
    {IF ran.kind = "resolve" THEN ran.value
     ELSE ContainedError(toolCall.name, MessageOf(ran.error)) : ran \in ToolRuns(toolCall)}

\* the contained error strings among them
FailuresOf(toolCall) ==
    {ContainedError(toolCall.name, MessageOf(ran.error)) :
        ran \in {r \in ToolRuns(toolCall) : r.kind = "reject"}}

\* C20: when Agent.chat dispatches a request for a registered tool, whatever the tool
\* does, a failure or a timeout included, the call of chat neither ends nor throws:
\* exactly one result block is added, without the error flag, whose content is what
\* the tool returned or the contained error string of its failure; the next request
\* of the turn is dispatched, and after the last one the results are appended and the
\* next completion call is made.
C20_ToolFailureContained ==
    [][(AtDispatch
          /\ Dispatched.name \notin {"todo_write", "execute_sequence"}
          /\ RegisteredIn(tools, Dispatched.name))
       => LET d == Len(stack)
              f == Last(stack)
          IN  /\ Len(stack') = d
              /\ outcome' = outcome
              /\ Len(ResultsAfter(d)) = Len(f.toolResults) + 1
              /\ SubSeq(ResultsAfter(d), 1, Len(f.toolResults)) = f.toolResults
              /\ ResultAdded.type = "tool_result"
              /\ "is_error" \notin DOMAIN ResultAdded
              /\ ResultAdded.content \in OutcomesOf(Dispatched)
              /\ IF f.i < Len(f.toolCalls)
                 THEN stack'[d].pc = "dispatch" /\ stack'[d].i = f.i + 1
                 ELSE /\ stack'[d].pc = "call"
                      /\ conversationHistory' =
                            Append(conversationHistory,
                                   [role |-> "user", content |-> Blocks(ResultsAfter(d))])]_vars

\* a turn asked for a command and for a URL: the command failed on its timeout and
\* the fetch on its own, both results are contained error strings in unflagged blocks
\* of one results turn, and the next completion call is under way
C20_Witness ==
    /\ AtCall
    /\ conversationHistory # <<>>
    /\ IsResultsTurn(Last(conversationHistory))
    /\ LET blocks == Last(conversationHistory).content.blocks
           asked == conversationHistory[Len(conversationHistory) - 1].content.blocks
       IN  /\ Len(blocks) = 2
           /\ blocks[1].content \in
                 FailuresOf([name |-> "execute_command", input |-> [command |-> "sleep 60"]])
           /\ blocks[2].content \in
                 FailuresOf([name |-> "http_request", input |-> [url |-> "http://slow.example"]])
           /\ \A k \in 1..2 : "is_error" \notin DOMAIN blocks[k]
           /\ blocks[1].tool_use_id = asked[2].id
           /\ blocks[2].tool_use_id = asked[3].id

(* ------------------------------------------------------------------ *)
(* Properties of the task list                                         *)
(* ------------------------------------------------------------------ *)

\* turn j of the history is a response of text and a write of the list
WritesAt(j, list) ==
    /\ j \in 1..Len(conversationHistory)
    /\ conversationHistory[j].role = "assistant"
    /\ Len(conversationHistory[j].content.blocks) = 2
    /\ IsToolUse(conversationHistory[j].content.blocks[2])
    /\ conversationHistory[j].content.blocks[2].name = "todo_write"
    /\ conversationHistory[j].content.blocks[2].input.todos = list

\* Agent.chat dispatches a task-list write in this step
WriteDispatch == AtDispatch /\ Dispatched.name = "todo_write"

\* the task list after this step
TodosNext == Deref(conversationHistory', todos')

\* the status the prior list gives the id: of the last item that has it
PriorStatus(prior, id) ==
    IF \E j \in 1..Len(prior) : prior[j].id = id
    THEN prior[CHOOSE j \in 1..Len(prior) :
                  /\ prior[j].id = id
                  /\ \A i \in (j + 1)..Len(prior) : prior[i].id # id].status
    ELSE "undefined"

\* some item of the new list has another status than it has in the prior list, and
\* the old or the new one is in_progress or completed
StatusTransition(prior, new) ==
    \E k \in 1..Len(new) :
        /\ PriorStatus(prior, new[k].id) # new[k].status
        /\ {PriorStatus(prior, new[k].id), new[k].status} \cap {"in_progress", "completed"} # {}

\* this step appends a directive of auto-progression
DirectiveAppended == \E k \in 1..Len(Appended) : IsDirectiveTurn(Appended[k])

\* C21: the dispatch of a task-list write replaces the task list by the supplied
\* list: afterwards the list has the supplied items in the supplied order and nothing
\* of the prior list, item for item as supplied when no auto-progression step
\* followed and otherwise but for the status such a step set; and a step follows only
\* when the supplied list differs in a status from the list as it was before the
\* replacement.
C21_WriteReplacesWholesale ==
    [][WriteDispatch =>
        LET prior == TodosNow
            supplied == Dispatched.input.todos
        IN  /\ Len(TodosNext) = Len(supplied)
            /\ \A k \in 1..Len(supplied) :
                  \/ TodosNext[k] = supplied[k]
                  \/ /\ DirectiveAppended
                     /\ TodosNext[k] = [supplied[k] EXCEPT !.status = "in_progress"]
            /\ ~DirectiveAppended => TodosNext = supplied
            /\ DirectiveAppended => StatusTransition(prior, supplied)]_vars

\* the agent held a list with an item B and completed items, a write supplied a list
\* of one pending item A and was dispatched: the list is that one item, started
C21_Witness ==
    /\ AtCall
    /\ Len(conversationHistory) >= 5
    /\ \E i \in 1..Len(conversationHistory) :
          /\ conversationHistory[i].role = "assistant"
          /\ \E k \in 1..Len(conversationHistory[i].content.blocks) :
                LET block == conversationHistory[i].content.blocks[k]
                IN  /\ IsToolUse(block)
                    /\ block.name = "todo_write"
                    /\ block.input.todos = <<Todo("A", "completed"), Todo("B", "completed")>>
          /\ \E j \in (i + 1)..Len(conversationHistory) :
                /\ conversationHistory[j].role = "assistant"
                /\ \E k \in 1..Len(conversationHistory[j].content.blocks) :
                      LET block == conversationHistory[j].content.blocks[k]
                      IN  /\ IsToolUse(block)
                          /\ block.name = "todo_write"
                          /\ block.input.todos = <<Todo("A", "pending")>>
                /\ IsDirectiveTurn(conversationHistory[j + 1])
                /\ IsResultsTurn(conversationHistory[j + 2])
                /\ j + 2 = Len(conversationHistory)
    /\ TodosNow = <<Todo("A", "in_progress")>>

\* the new list only adds pending items to the prior one or gives every id the status
\* it had
OnlyPendingAddedOrSame(prior, new) ==
    \A k \in 1..Len(new) :
        \/ PriorStatus(prior, new[k].id) = new[k].status
        \/ PriorStatus(prior, new[k].id) = "undefined" /\ new[k].status = "pending"

\* the write of this step is followed by an auto-progression step that fires: an
\* item is started and the directive for it appended
AutoProgressFired == DirectiveAppended \/ TodosNext # Dispatched.input.todos

DirectivesAppended == SelectSeq(Appended, LAMBDA turn : IsDirectiveTurn(turn))

\* the list with every item started that has the id of item k
WithIdStarted(list, k) ==
    [j \in 1..Len(list) |->
        IF list[j].id = list[k].id THEN [list[j] EXCEPT !.status = "in_progress"] ELSE list[j]]

\* C23 as claimed: an auto-progression step that fires changes exactly one item, from
\* pending to in_progress, and leaves the other items and the order as they were, so
\* that one pending item less is left, and appends exactly one directive, which names
\* that item; a step that does not fire leaves the list as it was and appends no
\* directive.
C23_StartsExactlyOneItem ==
    [][AutoProgressStep =>
        LET base == AutoProgressBase
        IN  IF TodosNext # base
            THEN /\ \E k \in 1..Len(base) :
                       /\ base[k].status = "pending"
                       /\ TodosNext = WithStarted(base, k)
                       /\ DirectivesAppended
                             = <<[role |-> "user", content |-> Text(DirectiveFor(base[k]))]>>
                 /\ NumberOf(TodosNext, "pending") = NumberOf(base, "pending") - 1
            ELSE DirectivesAppended = <<>>]_vars

\* C23 as amended: an auto-progression step that fires sets to in_progress the first
\* pending item and every other item that has the id of that item, whatever its
\* status, leaves the items of other ids and the order as they were, and appends
\* exactly one directive, which names the first pending item; in a list whose ids
\* differ that is exactly one item, and one pending item less is left. A step that
\* does not fire leaves the list as it was and appends no directive.
C23_StartsItemsOfFirstPendingId ==
    [][AutoProgressStep =>
        LET base == AutoProgressBase
        IN  IF TodosNext # base
            THEN /\ NumberOf(base, "pending") >= 1
                 /\ NumberOf(base, "in_progress") = 0
                 /\ TodosNext = WithIdStarted(base, FirstPending(base))
                 /\ DirectivesAppended
                       = <<[role |-> "user",
                            content |-> Text(DirectiveFor(base[FirstPending(base)]))]>>
                 /\ (\A i, j \in 1..Len(base) : base[i].id = base[j].id => i = j)
                       => /\ TodosNext = WithStarted(base, FirstPending(base))
                          /\ NumberOf(TodosNext, "pending") = NumberOf(base, "pending") - 1
            ELSE DirectivesAppended = <<>>]_vars

\* sequence execution began on two pending items A and B and started A alone: the
\* directive for A is the last turn and its chat cycle awaits the endpoint
C23_Witness ==
    /\ AtCall
    /\ Len(stack) = 2
    /\ stack[1].fn = "seq"
    /\ stack[1].start = <<Todo("A", "pending"), Todo("B", "pending")>>
    /\ stack[1].cycles = 1
    /\ TodosNow = <<Todo("A", "in_progress"), Todo("B", "pending")>>
    /\ Last(conversationHistory)
          = [role |-> "user", content |-> Text(DirectiveFor(Todo("A", "pending")))]

\* the text Agent.chat puts between the tool's text and the rendering of the list
InternalNotice == <<"\n\nInternal todo state updated: ">>

\* C24: the result block of a task-list write whose tool ran holds the confirmation
\* text of the tool for the supplied list, then the rendering of the list as the
\* request supplied it; an auto-progression step of the same dispatch changes the
\* task list and not that block, which still shows the started item as pending.
C24_ResultRendersSuppliedList ==
    [][(WriteDispatch /\ RegisteredIn(tools, "todo_write")) =>
        LET supplied == Dispatched.input.todos
        IN  /\ ResultAdded.type = "tool_result"
            /\ "is_error" \notin DOMAIN ResultAdded
            /\ ResultAdded.content
                  = todoWriteExecute([todos |-> supplied]) \o InternalNotice \o stringify(supplied)
            /\ AutoProgressFired
                  => /\ TodosNext # supplied
                     /\ SubSeq(ResultAdded.content,
                               Len(ResultAdded.content) - Len(stringify(supplied)) + 1,
                               Len(ResultAdded.content)) # stringify(TodosNext)]_vars

\* a write of [A: completed, B: pending] was dispatched and B started: the result
\* block renders B as pending, the task list holds B in_progress
C24_Witness ==
    /\ AtCall
    /\ conversationHistory # <<>>
    /\ IsResultsTurn(Last(conversationHistory))
    /\ Len(Last(conversationHistory).content.blocks) = 1
    /\ Last(conversationHistory).content.blocks[1].content
          = todoWriteExecute([todos |-> <<Todo("A", "completed"), Todo("B", "pending")>>])
              \o InternalNotice \o stringify(<<Todo("A", "completed"), Todo("B", "pending")>>)
    /\ TodosNow = <<Todo("A", "completed"), Todo("B", "in_progress")>>

AtMostOneInProgress(list) == NumberOf(list, "in_progress") <= 1

DistinctIds(list) == \A i, j \in 1..Len(list) : list[i].id = list[j].id => i = j

\* C25 as claimed: the task list has at most one in_progress item as long as every
\* write supplies a list with at most one in_progress item: no step leads from a list
\* with at most one in_progress item to a list with more, unless it dispatches a
\* write that supplies more than one.
C25_AtMostOneInProgress ==
    [][(AtMostOneInProgress(TodosNow)
          /\ (WriteDispatch => AtMostOneInProgress(Dispatched.input.todos)))
       => AtMostOneInProgress(TodosNext)]_vars

\* C25 as amended: the task list has at most one in_progress item, and items of
\* pairwise distinct ids, as long as every write supplies a list with at most one
\* in_progress item and pairwise distinct ids.
C25_AtMostOneInProgressOfDistinctIds ==
    [][(AtMostOneInProgress(TodosNow) /\ DistinctIds(TodosNow)
          /\ (WriteDispatch => /\ AtMostOneInProgress(Dispatched.input.todos)
                               /\ DistinctIds(Dispatched.input.todos)))
       => AtMostOneInProgress(TodosNext) /\ DistinctIds(TodosNext)]_vars

\* a write supplied [A: in_progress, B: pending] and its tool ran: the status of A
\* was new, the auto-progression check ran and started nothing, A alone is in_progress
C25_Witness ==
    /\ AtCall
    /\ WritesAt(Len(conversationHistory) - 1, <<Todo("A", "in_progress"), Todo("B", "pending")>>)
    /\ IsResultsTurn(Last(conversationHistory))
    /\ "is_error" \notin DOMAIN Last(conversationHistory).content.blocks[1]
    /\ TodosNow = <<Todo("A", "in_progress"), Todo("B", "pending")>>

\* C26 as claimed: only the dispatch of a task-list write changes the task list:
\* every other step (the dispatch of another tool, a final answer, clearing the
\* history, starting and running sequence execution) leaves it as it was.
C26_OnlyWritesChangeTodos ==
    [][~WriteDispatch => TodosNext = TodosNow]_vars

\* C26 as amended: the task list changes only in the dispatch of a task-list write
\* (the replacement and the auto-progression step after it) and in the auto-progression
\* step at the top of a pass of the while loop of executeTodoSequence, which sets
\* the first pending item (the items of its id) to in_progress when no item is
\* in_progress; the dispatch of another tool, a response, a final answer, clearing
\* the history and starting a chat or a sequence execution leave it as it was.
C26_OnlyWritesAndAutoProgressChangeTodos ==
    [][/\ TodosNext # TodosNow
            => \/ WriteDispatch
               \/ /\ AtLoop
                  /\ NumberOf(TodosNow, "in_progress") = 0
                  /\ NumberOf(TodosNow, "pending") >= 1
                  /\ TodosNext = WithIdStarted(TodosNow, FirstPending(TodosNow))
       /\ (AtLoop /\ NumberOf(TodosNow, "in_progress") = 0 /\ NumberOf(TodosNow, "pending") >= 1)
            => TodosNext # TodosNow]_vars

\* the caller ran /execute-todos on the list [A: pending] that a write had supplied:
\* the first pass started A, with no write dispatched, and its chat cycle is under way
C26_Witness ==
    /\ AtCall
    /\ Len(stack) = 2
    /\ stack[1].fn = "seq"
    /\ stack[1].start = <<Todo("A", "pending")>>
    /\ todos = Own(<<Todo("A", "in_progress")>>)
    /\ Last(stack).messages = conversationHistory

(* ------------------------------------------------------------------ *)
(* Properties of the order of the loop                                 *)
(* ------------------------------------------------------------------ *)

\* the action requests of a response, in the order the response declares them
RequestsOf(content) == SelectSeq(content, LAMBDA block : block.type = "tool_use")

\* the call at depth d is in the for loop of Agent.chat
InForLoop(st, d) == d \in 1..Len(st) /\ st[d].fn = "chat" /\ st[d].pc \in {"dispatch", "await"}

\* every pending call but the innermost is suspended on the call above it: a pass of
\* the for loop of chat on a sequence execution, a sequence execution on its chat
\* cycle; so the innermost call alone has a completion call or a tool dispatch open
OneAtATime(st) ==
    \A d \in 1..(Len(st) - 1) :
        /\ st[d].pc = "await"
        /\ st[d].fn # st[d + 1].fn
        /\ st[d].fn = "chat" => st[d].toolCalls[st[d].i].name = "execute_sequence"

\* a call in its for loop has the requests of the response in declared order, is at
\* request i and holds the results of the i - 1 requests before it
InDeclaredOrder(st, d) ==
    /\ Len(st[d].toolCalls) = Len(RequestsOf(st[d].content))
    /\ \A k \in 1..Len(st[d].toolCalls) :
          /\ st[d].toolCalls[k].name = RequestsOf(st[d].content)[k].name
          /\ st[d].toolCalls[k].input = RequestsOf(st[d].content)[k].input
    /\ st[d].i \in 1..Len(st[d].toolCalls)
    /\ Len(st[d].toolResults) = st[d].i - 1

\* C27: the loop is strictly sequential. At any moment only the innermost pending
\* call has a completion call or a tool dispatch open (a dispatch of execute_sequence
\* is suspended while the chat cycles it started run). The requests of a response
\* are dispatched one after another in declared order: a call is at request i only
\* with the results of the requests before i, and it goes from request i to request
\* i + 1 and to no other, with the result of request i added.
C27_StrictlySequential ==
    [][/\ OneAtATime(stack')
       /\ \A d \in 1..Len(stack') : InForLoop(stack', d) => InDeclaredOrder(stack', d)
       /\ \A d \in 1..Len(stack) :
             (InForLoop(stack, d) /\ InForLoop(stack', d))
             => /\ stack'[d].toolCalls = stack[d].toolCalls
                /\ \/ /\ stack'[d].i = stack[d].i
                      /\ stack'[d].toolResults = stack[d].toolResults
                   \/ /\ stack'[d].i = stack[d].i + 1
                      /\ d = Len(stack')
                      /\ stack'[d].pc = "dispatch"
                      /\ Front(stack'[d].toolResults) = stack[d].toolResults]_vars

\* a response asked for a sequence execution and then for a file: the sequence has
\* run its chat cycle and returned, its report is the one result so far, and the
\* request for the file is dispatched only now
C27_Witness ==
    /\ AtDispatch
    /\ Len(stack) = 1
    /\ Len(Last(stack).toolCalls) = 2
    /\ Last(stack).toolCalls[1].name = "execute_sequence"
    /\ Last(stack).toolCalls[2].name = "read_file"
    /\ Last(stack).i = 2
    /\ Len(Last(stack).toolResults) = 1
    /\ Last(stack).toolResults[1].content[1] = "Todo sequence completed! "
    /\ lastSequence.kind = "sequence"
    /\ lastSequence.cycles >= 1

(* ------------------------------------------------------------------ *)
(* Properties of the shape of the history                              *)
(* ------------------------------------------------------------------ *)

\* an assistant turn with action requests
IsRequestTurn(turn) ==
    /\ turn.role = "assistant"
    /\ \E k \in 1..Len(turn.content.blocks) : IsToolUse(turn.content.blocks[k])

\* C28: in the history every assistant turn with action requests that has a turn
\* after it is followed at once by the user turn of the result blocks of its
\* requests, one block for each: no directive of auto-progression and no turn of a
\* nested chat cycle stands between them.
C28_ResultsFollowRequests ==
    \A j \in 1..(Len(conversationHistory) - 1) :
        IsRequestTurn(conversationHistory[j])
        => /\ IsResultsTurn(conversationHistory[j + 1])
           /\ Len(conversationHistory[j + 1].content.blocks)
                 = Len(RequestIds(conversationHistory[j]))

(* ------------------------------------------------------------------ *)
(* Properties of the termination of executeTodoSequence                *)
(* ------------------------------------------------------------------ *)

\* the agent after the pass of the while loop of executeTodoSequence that begins in
\* this state
AfterPass == SeqLoop(Cur)

\* C29: executeTodoSequence terminates when its chat cycles return: a pass of its
\* while loop either starts a chat cycle or leaves the loop. (A pass that does
\* neither has started no item and changed no list, and as it awaits nothing the
\* next pass finds what this one found: the loop never ends.) So it is also when the
\* sequence begins with one item in_progress and another pending, and when a chat
\* cycle returns with another item in_progress than the one it began with while
\* items are pending.
C29_PassStartsCycleOrLeavesLoop ==
    AtLoop => \/ Len(AfterPass.st) = Len(stack) + 1 /\ Last(AfterPass.st).fn = "chat"
              \/ Len(AfterPass.st) < Len(stack)

(* ------------------------------------------------------------------ *)
(* Properties of clearHistory                                          *)
(* ------------------------------------------------------------------ *)

\* no call of the agent is pending before or after this step and the history is
\* another: the caller cleared it
Cleared == stack = <<>> /\ stack' = <<>> /\ conversationHistory' # conversationHistory

\* the history is empty after completion calls were made: it was cleared, and nothing
\* was appended since
AfterClear == stack = <<>> /\ conversationHistory = <<>> /\ calls > 0

\* C30: clearHistory makes the history empty and changes nothing else: the task list
\* holds the items it held, the registry its tools, and what the last call returned
\* is as it was. A chat started then sends the turns appended since the clear, which
\* is its own user turn alone.
C30_ClearResetsHistoryOnly ==
    [][/\ Cleared
          => /\ conversationHistory' = <<>>
             /\ TodosNext = TodosNow
             /\ tools' = tools
             /\ outcome' = outcome
             /\ lastSequence' = lastSequence
             /\ calls' = calls /\ requests' = requests
       /\ (AfterClear /\ stack' # <<>> /\ Last(stack').fn = "chat")
          => /\ Len(conversationHistory') = 1
             /\ conversationHistory'[1].role = "user"
             /\ Last(stack').pc = "call"
             /\ Last(stack').messages = conversationHistory'
             /\ TodosNext = TodosNow]_vars

\* a write supplied [A: pending], the history was cleared after the final answer and
\* a chat was started: it sent its user turn alone, and the task list still holds A
C30_Witness ==
    /\ AtCall
    /\ Len(stack) = 1
    /\ calls = 2
    /\ conversationHistory = <<[role |-> "user", content |-> Text(<<"hello">>)]>>
    /\ Last(stack).messages = conversationHistory
    /\ todos = Own(<<Todo("A", "pending")>>)


(* ------------------------------------------------------------------ *)
(* C31: sequence execution with nothing pending                        *)
(* ------------------------------------------------------------------ *)

NoPendingNotice == <<"No pending todos to execute.">>

\* no item of the task list is pending
NothingPending == getNextPendingTodo(TodosNow) = Undefined

\* this step dispatches an execute_sequence request that is not cancelled
SequenceRequested ==
    AtDispatch /\ Dispatched.name = "execute_sequence" /\ confirm(Dispatched.input)

\* C31: Agent.executeTodoSequence called when no item is pending returns the notice
\* "No pending todos to execute." at once: it enters no pass of its loop and so no
\* chat cycle calls the endpoint for it, and it leaves the history and the task list
\* as they were. Called by processMessage, the notice is what the caller gets and
\* nothing else changes; called for an execute_sequence request, the notice is the
\* content of the result block of the request, which is all that the dispatching
\* chat adds.
C31_NothingPendingReturnsNotice ==
    [][NothingPending =>
          /\ (stack = <<>> /\ stack' # <<>>) => (Len(stack') = 1 /\ stack'[1].fn = "chat")
          /\ (stack = <<>> /\ stack' = <<>> /\ outcome' # outcome) =>
                /\ outcome' = Return(NoPendingNotice)
                /\ conversationHistory' = conversationHistory
                /\ todos' = todos
                /\ calls' = calls
          /\ SequenceRequested =>
                /\ Len(stack') = Len(stack)
                /\ Last(stack').fn = "chat"
                /\ ResultAdded = ToolResult(ResultAdded.tool_use_id, NoPendingNotice)
                /\ Len(ResultsAfter(Len(stack))) = Len(Last(stack).toolResults) + 1
                /\ TodosNext = TodosNow
                /\ calls' = calls
                /\ \/ Appended = <<>>
                   \/ Len(Appended) = 1 /\ IsResultsTurn(Appended[1])]_vars

\* the endpoint asked for a sequence execution when the one item of the list was
\* completed, and later the caller ran /execute-todos on that list
C31_Witness ==
    /\ stack = <<>>
    /\ outcome = Return(NoPendingNotice)
    /\ TodosNow = <<Todo("A", "completed")>>
    /\ \E j \in 1..Len(conversationHistory) :
          /\ IsResultsTurn(conversationHistory[j])
          /\ conversationHistory[j].content.blocks[1].content = NoPendingNotice


(* ------------------------------------------------------------------ *)
(* The command of processMessage                                       *)
(* ------------------------------------------------------------------ *)

\* the atoms of the inputs a caller types: white space, the command in two spellings,
\* another word
CommandAtoms == {" ", "\t", "/execute-todos", "/EXECUTE-TODOS", "hello"}

\* the inputs of one to three atoms
CommandInputs == UNION {[1..n -> CommandAtoms] : n \in 1..3}

\* an agent whose task list is empty or holds one pending item
InitCommand ==
    /\ tools \in AgentRegistries
    /\ registered = tools
    /\ lastExecute = None
    /\ caller = None
    /\ conversationHistory = <<>>
    /\ todos \in {Own(<<>>), Own(<<Todo("A", "pending")>>)}
    /\ stack = <<>>
    /\ outcome = None
    /\ lastSequence = None
    /\ calls = 0
    /\ requests = 0

\* the caller invokes Agent.processMessage with an input and keeps the input
Submit ==
    /\ stack = <<>>
    /\ caller = None
    /\ \E userInput \in CommandInputs :
          /\ caller' = [kind |-> "message", userInput |-> userInput]
          /\ Becomes(processMessage([Cur EXCEPT !.out = None], userInput))
    /\ UNCHANGED <<tools, registered, lastExecute, calls, requests>>

\* the endpoint gives a final answer
RespondCommand == RespondOf({<<TextBlock>>})

NextCommand == Submit \/ RespondCommand \/ SeqIterate

SpecCommand == InitCommand /\ [][NextCommand]_vars

\* the input is the command: white space around one atom that spells /execute-todos
\* in some case
IsCommand(userInput) ==
    LET kept == SelectSeq(userInput, LAMBDA atom : atom \notin {" ", "\t"})
    IN  Len(kept) = 1 /\ kept[1] \in {"/execute-todos", "/EXECUTE-TODOS"}

\* C32: Agent.processMessage runs sequence execution exactly when its input, trimmed
\* and lower-cased, is "/execute-todos", and then appends no user turn for the input
\* (sequence execution returns its notice at once, or enters its loop, and the only
\* user turns it ever appends are its directives); every other input, also one that contains the command among
\* other words or is only white space, goes to Agent.chat as it is and is appended,
\* untrimmed and in its own case, as one user turn that the completion call receives.
C32_CommandRunsSequenceElseChat ==
    /\ [][(caller = None /\ caller' # None) =>
        LET userInput == caller'.userInput
        IN  IF IsCommand(userInput)
            THEN /\ IF NothingPending
                    THEN stack' = <<>> /\ outcome' = Return(NoPendingNotice)
                    ELSE stack' = <<SeqFrame(Cur)>>
                 /\ Appended = <<>>
                 /\ todos' = todos
            ELSE /\ Len(stack') = 1
                 /\ stack'[1].fn = "chat"
                 /\ stack'[1].pc = "call"
                 /\ Appended = <<[role |-> "user", content |-> Text(userInput)]>>
                 /\ stack'[1].messages = conversationHistory'
                 /\ todos' = todos]_vars
    /\ [](caller # None /\ IsCommand(caller.userInput) =>
            \A j \in 1..Len(conversationHistory) :
                /\ conversationHistory[j] # [role |-> "user", content |-> Text(caller.userInput)]
                /\ conversationHistory[j].role = "user" => IsDirectiveTurn(conversationHistory[j]))

\* the caller typed the command in capitals between a blank and a tab when an item
\* was pending: the item is started and the directive is the only turn, and the
\* chat cycle for it has been answered
C32_Witness ==
    /\ caller # None
    /\ caller.userInput = <<" ", "/EXECUTE-TODOS", "\t">>
    /\ Len(conversationHistory) = 2
    /\ IsDirectiveTurn(conversationHistory[1])
    /\ calls = 1


(* ------------------------------------------------------------------ *)
(* C33: the execute_sequence request                                   *)
(* ------------------------------------------------------------------ *)

CancelledText == <<"Todo sequence execution cancelled.">>

\* the input of the request says confirm: false
Declined(input) == "confirm" \in DOMAIN input /\ input.confirm = FALSE

\* this step dispatches an execute_sequence request
SequenceDispatch == AtDispatch /\ Dispatched.name = "execute_sequence"

\* the sequence execution that the chat at depth d awaits ends in this step
SequenceEnds(d) ==
    /\ d < Len(stack)
    /\ stack[d].fn = "chat"
    /\ stack[d].pc = "await"
    /\ stack[d + 1].fn = "seq"
    /\ Len(stack') >= d
    /\ stack'[d].pc # "await"

\* the chat at depth d adds this one block to its results in this step, which then
\* are in its frame or in the results turn it appended
AddsOneBlock(d, block) == ResultsAfter(d) = Append(stack[d].toolResults, block)

\* C33: an execute_sequence request whose input has confirm = false gets exactly one
\* result block, with the cancellation text, and nothing else changes: no sequence
\* execution, the task list as it was, the history as it was but for the results turn
\* that holds the block. With confirm true or absent the request runs sequence
\* execution (which with nothing pending returns its notice at once, and else runs
\* before anything is added), and when sequence execution returns, its report is the
\* content of the one result block added for the request; if it ends by an endpoint
\* failure instead, the one block added is the error block of that failure.
C33_ExecuteSequenceRequest ==
    [][/\ (SequenceDispatch /\ Declined(Dispatched.input)) =>
            /\ Len(stack') = Len(stack)
            /\ AddsOneBlock(Len(stack), ToolResult(ResultAdded.tool_use_id, CancelledText))
            /\ todos' = todos
            /\ TodosNext = TodosNow
            /\ calls' = calls
            /\ lastSequence' = lastSequence
            /\ \/ Appended = <<>>
               \/ Appended = <<[role |-> "user", content |-> Blocks(ResultsAfter(Len(stack)))]>>
       /\ (SequenceDispatch /\ ~Declined(Dispatched.input)) =>
            IF NothingPending
            THEN /\ Len(stack') = Len(stack)
                 /\ AddsOneBlock(Len(stack),
                                 ToolResult(ResultAdded.tool_use_id, NoPendingNotice))
            ELSE /\ stack' = Append(SetTop(Cur, [Last(stack) EXCEPT !.pc = "await"]).st,
                                    Last(stack'))
                 /\ Last(stack').fn = "seq"
                 /\ Appended = <<>>
                 /\ todos' = todos
       /\ \A d \in 1..Len(stack) :
            SequenceEnds(d) =>
                LET block == Last(ResultsAfter(d))
                    report == ReportText(NumberOf(TodosNext, "completed"), Len(TodosNext))
                IN  /\ \/ AddsOneBlock(d, ToolResult(block.tool_use_id, report))
                       \/ AtCall /\ AddsOneBlock(d, ErrorResult(block.tool_use_id, EndpointError))
                    /\ stack[d].toolCalls[stack[d].i].name = "execute_sequence"
                    /\ ~Declined(stack[d].toolCalls[stack[d].i].input)
                    /\ Len(ResultsAfter(d)) = stack[d].i]_vars

\* a declined request was answered with the cancellation text, and a request without
\* confirm with the report of the sequence execution it ran
C33_Witness ==
    /\ \E j \in 1..Len(conversationHistory) :
          /\ IsResultsTurn(conversationHistory[j])
          /\ \E k \in 1..Len(conversationHistory[j].content.blocks) :
                conversationHistory[j].content.blocks[k].content = CancelledText
    /\ \E j \in 1..Len(conversationHistory) :
          /\ IsAssistantTurn(conversationHistory[j])
          /\ \E k \in 1..Len(conversationHistory[j].content.blocks) :
                /\ conversationHistory[j].content.blocks[k].type = "tool_use"
                /\ conversationHistory[j].content.blocks[k].input = [reason |-> "go"]
          /\ \E m \in (j + 1)..Len(conversationHistory) :
                /\ IsResultsTurn(conversationHistory[m])
                /\ \E k \in 1..Len(conversationHistory[m].content.blocks) :
                      conversationHistory[m].content.blocks[k].content[1]
                          = "Todo sequence completed! "


(* ------------------------------------------------------------------ *)
(* The interactive front-end (index.ts)                                *)
(* ------------------------------------------------------------------ *)

\* the lines a user types at the prompt: exit in three cases, exit after a blank or
\* before other words, a message, the command
Lines ==
    {<<"exit">>, <<"EXIT">>, <<"Exit">>, <<" ", "exit">>, <<"exit", " ", "hello">>,
     <<"hello">>, <<"/execute-todos">>}

\* what main holds: where its loop is (ask: in askQuestion, await: awaiting
\* processMessage, closed: after rl.close()), the line it read last, and what it wrote
\* last to the console
Main(pc, userInput, stream, value) ==
    [kind |-> "main", pc |-> pc, userInput |-> userInput,
     console |-> [stream |-> stream, value |-> value]]

\* main up to its first askQuestion
InitMain ==
    /\ tools \in AgentRegistries
    /\ registered = tools
    /\ lastExecute = None
    /\ caller = Main("ask", Null, "log", <<"Agent started! Type \"exit\" to quit.\n">>)
    /\ conversationHistory = <<>>
    /\ todos = Own(<<>>)
    /\ stack = <<>>
    /\ outcome = None
    /\ lastSequence = None
    /\ calls = 0
    /\ requests = 0

\* the loop of main after processMessage threw, with no try around its body: the
\* error leaves main, which ends
mainSettledUncaught(userInput, ret) ==
    IF ret.kind = "throw"
    THEN Main("closed", userInput, "error", ret.error)
    ELSE Main("ask", userInput, "log", <<"Agent: ">> \o ret.value \o <<"\n">>)

\* the loop of main from the settling of processMessage to the next askQuestion
mainSettled(userInput, ret) ==
    IF ret.kind = "throw"
    THEN Main("ask", userInput, "error", <<"Error:", ret.error>>)
    ELSE Main("ask", userInput, "log", <<"Agent: ">> \o ret.value \o <<"\n">>)

\* askQuestion resolves with a line: main ends on exit and else calls processMessage
ReadLine ==
    /\ caller.pc = "ask"
    /\ \E userInput \in Lines :
          IF toLowerCase(userInput) = <<"exit">>
          THEN /\ caller' = Main("closed", userInput, "log", <<"Goodbye!">>)
               /\ UNCHANGED <<conversationHistory, todos, stack, outcome, lastSequence>>
          ELSE /\ calls < MaxCalls
               /\ caller' = Main("await", userInput, "log", <<"Agent: Thinking...">>)
               /\ Becomes(processMessage([Cur EXCEPT !.out = None], userInput))
    /\ UNCHANGED <<tools, registered, lastExecute, calls, requests>>

\* the processMessage that main awaits has settled: main goes on
MainResume ==
    /\ caller.pc = "await"
    /\ stack = <<>>
    /\ caller' = mainSettled(caller.userInput, outcome)
    /\ UNCHANGED <<tools, registered, lastExecute, conversationHistory, todos, stack, outcome,
                   lastSequence, calls, requests>>

NextMain == ReadLine \/ RespondCommand \/ EndpointFails \/ MainResume

\* a settled promise runs its continuation: main does go on after processMessage
SpecMain == InitMain /\ [][NextMain]_vars /\ WF_vars(MainResume)

\* the line is exit in some case and nothing else
IsExit(userInput) == userInput \in {<<"exit">>, <<"EXIT">>, <<"Exit">>}

\* C34: the front-end leaves its loop only on a line that is exit in some case, and
\* on every such line; any other line, also one that holds exit among blanks or
\* words, goes to Agent.processMessage. When processMessage throws for a line, main
\* catches the error, writes it to the error stream and is in askQuestion again, and
\* it gets there whenever processMessage has thrown.
C34_EndsOnlyOnExit ==
    /\ [][/\ (caller.pc # "closed" /\ caller'.pc = "closed") =>
                (caller.pc = "ask" /\ IsExit(caller'.userInput))
          /\ (caller.pc = "ask" /\ caller' # caller /\ IsExit(caller'.userInput)) =>
                (caller'.pc = "closed" /\ conversationHistory' = conversationHistory
                    /\ stack' = <<>>)
          /\ (caller.pc = "ask" /\ caller' # caller /\ ~IsExit(caller'.userInput)) =>
                caller'.pc = "await"
          /\ (caller.pc = "await" /\ caller' # caller /\ outcome.kind = "throw") =>
                /\ caller'.pc = "ask"
                /\ caller'.console.stream = "error"
                /\ caller'.console.value = <<"Error:", outcome.error>>]_vars
    /\ (caller.pc = "await" /\ stack = <<>> /\ outcome.kind = "throw") ~> (caller.pc = "ask")

\* the endpoint failed for the second line; main reported the error and is asking for
\* a third line, the first line having been answered
C34_Witness ==
    /\ caller.pc = "ask"
    /\ caller.console.stream = "error"
    /\ outcome = Throw(EndpointError)
    /\ Len(conversationHistory) = 3
    /\ calls = 2


(* ------------------------------------------------------------------ *)
(* The array that getConversationHistory returns                       *)
(* ------------------------------------------------------------------ *)

\* how many times a caller changes an array it was given
MaxMutations == 2

\* a getter returning the agent's own array
getConversationHistoryAliased(h) == [at |-> "history"]

\* Agent.getConversationHistory: [...this.conversationHistory], a new array of the
\* turns of the history
getConversationHistory(h) == Own(h)

\* the turn a caller pushes on an array it was given
InjectedTurn == [role |-> "user", content |-> Text(<<"injected">>)]

\* what a caller does to an array: push, pop, reverse
ArrayOps == {"push", "pop", "reverse"}

ArrayOp(op, array) ==
    CASE op = "push" -> Append(array, InjectedTurn)
      [] op = "pop" -> IF array = <<>> THEN array ELSE Front(array)
      [] op = "reverse" -> [k \in 1..Len(array) |-> array[Len(array) + 1 - k]]

\* the caller calls getConversationHistory and keeps the array
GetHistory ==
    /\ caller' = [kind |-> "history",
                  returned |-> getConversationHistory(conversationHistory),
                  mutations |-> 0]
    /\ UNCHANGED <<tools, registered, lastExecute, conversationHistory, todos, stack, outcome,
                   lastSequence, calls, requests>>

\* the caller changes the array it keeps, which is the array of the agent if that is
\* what the getter returned
MutateReturned ==
    /\ caller.kind = "history"
    /\ caller.mutations < MaxMutations
    /\ \E op \in ArrayOps :
          IF caller.returned.at = "history"
          THEN /\ conversationHistory' = ArrayOp(op, conversationHistory)
               /\ caller' = [caller EXCEPT !.mutations = @ + 1]
          ELSE /\ caller' = [caller EXCEPT !.mutations = @ + 1,
                                           !.returned = Own(ArrayOp(op, @.list))]
               /\ UNCHANGED conversationHistory
    /\ UNCHANGED <<tools, registered, lastExecute, todos, stack, outcome, lastSequence,
                   calls, requests>>

NextHistory == Chat \/ RespondCommand \/ GetHistory \/ MutateReturned

SpecHistory == Init /\ [][NextHistory]_vars

\* the array the caller keeps, as it is after this step
ReturnedNext ==
    IF caller'.returned.at = "history" THEN conversationHistory' ELSE caller'.returned.list

\* C35: the array Agent.getConversationHistory returns holds the turns of the history
\* and is not the agent's array: a caller that pushes on it, pops from it or reverses
\* it changes its own array only. The history changes only by the turns the agent
\* appends while it runs, every completion call receives exactly the agent's history,
\* and a later getConversationHistory returns exactly that history again.
C35_ReturnedArrayIsACopy ==
    /\ [][/\ (caller' # caller) =>
                /\ conversationHistory' = conversationHistory
                /\ caller'.mutations = 0 => ReturnedNext = conversationHistory
          /\ (conversationHistory' # conversationHistory) =>
                /\ Running
                /\ SubSeq(conversationHistory', 1, Len(conversationHistory)) = conversationHistory
                /\ \A k \in 1..Len(Appended) : Appended[k] # InjectedTurn]_vars
    /\ [](AtCall => Last(stack).messages = conversationHistory)

\* the caller got the history of an answered message, reversed its array and pushed a
\* turn on it; the agent was then sent a second message, and the completion call for
\* it holds the three turns of the agent's history
C35_Witness ==
    /\ caller.kind = "history"
    /\ caller.mutations = 2
    /\ Len(caller.returned.list) = 3
    /\ caller.returned.list[1].role = "assistant"
    /\ caller.returned.list[3] = InjectedTurn
    /\ AtCall
    /\ Len(Last(stack).messages) = 3
    /\ Last(stack).messages[1].role = "user"

====
